---- MODULE Spec2Model ----
(***************************************************************************)
(* Model of the idcloudhost reconcilers (plugins/modules/vm.py,            *)
(* floating_ip.py, network.py, block_storage.py), of the one-shot modules  *)
(* (create_vm.py, get_network.py, get_public_ip.py) and of the shared      *)
(* locators and result assembler (plugins/module_utils/base.py).           *)
(*                                                                         *)
(* A Python dict is a function with a string domain; `'k' in d` is         *)
(* Has(d, k).  Python None / JSON null in a string-valued position is the  *)
(* string None; a function that returns None instead of a dict returns     *)
(* PyNone.  The provider is the environment: every mutating request is     *)
(* either accepted (the provider applies it and answers with the record)   *)
(* or rejected (it answers with a body that has no uuid / a status other   *)
(* than 200), chosen nondeterministically.                                 *)
(***************************************************************************)
EXTENDS Integers, Sequences, FiniteSets, TLC

VARIABLES
    vms,      \* provider: the VM list behind GET user-resource/vm/list
    ips,      \* provider: the floating-IP list behind GET network/ip_addresses
    nets,     \* provider: the network list behind GET network/networks
    params,   \* self._module.params of the running invocation
    pc,       \* position of the running invocation
    loc,      \* local variables of the running invocation
    calls,    \* Transport Adapter requests recorded in this invocation
    outcome,  \* "none" | "exit" (exit_json) | "fail" (fail_json) | "fault"
              \* (uncaught exception) | "return" (main returned without either)
    result,   \* kwargs handed to exit_json
    failure,  \* arguments handed to fail_json
    run,      \* number of invocations started so far
    prev,     \* summary of the previous invocation
    before,   \* the provider's lists when the running invocation began
    probe,    \* locator specification: the probe of the last lookup
    found     \* locator specification: what the last lookup returned

vars == <<vms, ips, nets, params, pc, loc, calls, outcome, result, failure,
          run, prev, before, probe, found>>

-----------------------------------------------------------------------------
(* Bounds *)

MaxSize == 2      \* disks, vcpu and ram range over 1..MaxSize
MaxRuns == 2      \* invocations in succession
MaxData == 2      \* entries of a collection handed to a locator

Sizes == 1..MaxSize

-----------------------------------------------------------------------------
(* Python values *)

None == "None"
Empty == <<>>
PyNone == [py_none |-> TRUE]

Has(d, k) == k \in DOMAIN d
IsNone(d) == Has(d, "py_none")
Upd(d, k, v) == (k :> v) @@ d
Merge(d, e) == e @@ d

Min(S) == CHOOSE i \in S : \A j \in S : i <= j

-----------------------------------------------------------------------------
(* Provider data *)

VmNames == {"vm1", "vm2"}
UuidOf == [vm1 |-> "vm-uuid-1", vm2 |-> "vm-uuid-2"]
PrivOf == [vm1 |-> "10.0.0.1", vm2 |-> "10.0.0.2"]
DiskOf == [vm1 |-> "disk-uuid-1", vm2 |-> "disk-uuid-2"]

RawVm(name, vcpu, ram, size, status) ==
    [uuid |-> UuidOf[name], name |-> name, hostname |-> name,
     vcpu |-> vcpu, memory |-> ram, private_ipv4 |-> PrivOf[name],
     billing_account |-> "acct", status |-> status,
     storage |-> <<[uuid |-> DiskOf[name], size |-> size, primary |-> TRUE]>>]

IpNames == {"fip1", "fip2"}
IpUuidOf == [fip1 |-> "ip-uuid-1", fip2 |-> "ip-uuid-2"]
AddrOf == [fip1 |-> "203.0.113.1", fip2 |-> "203.0.113.2"]

\* an entry whose association keys are missing, null, or set to a VM
RawIpBare(name) ==
    [uuid |-> IpUuidOf[name], name |-> name, address |-> AddrOf[name],
     enabled |-> TRUE]
RawIpNull(name) ==
    [uuid |-> IpUuidOf[name], name |-> name, address |-> AddrOf[name],
     enabled |-> TRUE, assigned_to |-> None, assigned_to_private_ip |-> None]
RawIpOf(name, vm) ==
    [uuid |-> IpUuidOf[name], name |-> name, address |-> AddrOf[name],
     enabled |-> TRUE, assigned_to |-> UuidOf[vm],
     assigned_to_private_ip |-> PrivOf[vm]]

RawNet(name, dflt) ==
    [uuid |-> "net-uuid-" \o name, name |-> name, subnet |-> "10.0.0.0/24",
     is_default |-> dflt]

\* bodies of a rejected request: none of them has a uuid
ErrBodies == {[message |-> "rejected"], [error |-> "rejected"]}

\* a GET answers with the list, or with something that is not a list
ListResp(items) == [is_list |-> TRUE, items |-> items]
NotAList == [is_list |-> FALSE, items |-> <<>>]

\* a recorded request: the method, the endpoint, what the URL ends in after
\* the endpoint, the form or JSON body, and whether the provider accepted it
Req(method, path, target, body, ok) ==
    [method |-> method, path |-> path, target |-> target, body |-> body, ok |-> ok]
Mutating(c) == c.method \in {"POST", "PATCH", "DELETE"}

-----------------------------------------------------------------------------
(* base.py: the locators and the result assembler *)

\* a lookup that takes the first network whatever its name
get_existing_network_first(data, name) ==
    IF data.is_list /\ Len(data.items) > 0
    THEN LET value == data.items[1]
         IN  [uuid |-> value["uuid"], name |-> value["name"],
              subnet |-> value["subnet"], is_default |-> value["is_default"]]
    ELSE Empty

get_existing_network(data, name) ==
    IF data.is_list /\ Len(data.items) > 0
    THEN LET hit == {i \in 1..Len(data.items) : data.items[i]["name"] = name}
         IN  IF hit = {} THEN Empty
             ELSE LET value == data.items[Min(hit)]
                  IN  [uuid |-> value["uuid"], name |-> value["name"],
                       subnet |-> value["subnet"],
                       is_default |-> value["is_default"]]
    ELSE Empty

\* a test that looks at the name alone
is_found_name_only(value, vm_uuid, private_ipv4, name) ==
    Has(value, "name") /\ value["name"] = name

\* Base._get_public_ipv4: the test made on one entry
is_found(value, vm_uuid, private_ipv4, name) ==
    \/ Has(value, "assigned_to_private_ip")
         /\ value["assigned_to_private_ip"] = private_ipv4
    \/ Has(value, "assigned_to") /\ value["assigned_to"] = vm_uuid
    \/ Has(value, "name") /\ value["name"] = name

\* the `return dict()` sits inside the `if`: an empty or malformed collection
\* falls off the end of the function, which returns None
get_public_ipv4(data, vm_uuid, private_ipv4, name) ==
    IF data.is_list /\ Len(data.items) > 0
    THEN LET hit == {i \in 1..Len(data.items) :
                        is_found(data.items[i], vm_uuid, private_ipv4, name)}
         IN  IF hit = {} THEN Empty
             ELSE LET value == data.items[Min(hit)]
                  IN  [uuid |-> value["uuid"],
                       name |-> IF Has(value, "name") THEN value["name"] ELSE "",
                       public_ipv4 |-> value["address"],
                       assigned_to_vm_uuid |->
                           IF Has(value, "assigned_to")
                           THEN value["assigned_to"] ELSE "",
                       private_ipv4_address |->
                           IF Has(value, "assigned_to_private_ip")
                           THEN value["assigned_to_private_ip"] ELSE "",
                       enabled |-> value["enabled"]]
    ELSE PyNone

GetIps == Req("GET", "network/ip_addresses", "", Empty, TRUE)
GetVms == Req("GET", "user-resource/vm/list", "", Empty, TRUE)
GetNets == Req("GET", "network/networks", "", Empty, TRUE)

\* a scan that never finds a primary disk
primary_disk_none(storage) == [disks |-> 0, disk_uuid |-> ""]

\* the primary-disk scan: the first storage entry flagged primary
primary_disk(storage) ==
    LET hit == {i \in 1..Len(storage) : storage[i]["primary"]}
    IN  IF hit = {} THEN [disks |-> 0, disk_uuid |-> ""]
        ELSE [disks |-> storage[Min(hit)]["size"],
              disk_uuid |-> storage[Min(hit)]["uuid"]]

\* returns [fault, vm, gets]: `'public_ipv4' not in floating_ip` raises
\* TypeError when the join returned None
construct_vm_data(data, include_public_ipv4, ipdata) ==
    LET floating_ip == IF include_public_ipv4
                       THEN get_public_ipv4(ipdata, data["uuid"],
                                            data["private_ipv4"], None)
                       ELSE Empty
        gets == IF include_public_ipv4 THEN <<GetIps>> ELSE <<>>
        disk == primary_disk(data["storage"])
    IN  IF IsNone(floating_ip)
        THEN [fault |-> TRUE, vm |-> Empty, gets |-> gets]
        ELSE [fault |-> FALSE, gets |-> gets,
              vm |-> [uuid |-> data["uuid"], name |-> data["name"],
                      hostname |-> data["hostname"],
                      disks |-> disk.disks, disk_uuid |-> disk.disk_uuid,
                      vcpu |-> data["vcpu"], ram |-> data["memory"],
                      private_ipv4 |-> data["private_ipv4"],
                      public_ipv4 |-> IF Has(floating_ip, "public_ipv4")
                                      THEN floating_ip["public_ipv4"] ELSE "",
                      billing_account |-> data["billing_account"],
                      status |-> data["status"], changed |-> FALSE]]

\* returns [fault, vm, gets]
get_vm(data, uuid, name, include_public_ipv4, ipdata) ==
    IF data.is_list /\ Len(data.items) > 0
    THEN LET hit == {i \in 1..Len(data.items) :
                        \/ data.items[i]["uuid"] = uuid
                        \/ data.items[i]["name"] = name}
         IN  IF hit = {}
             THEN [fault |-> FALSE, vm |-> Empty, gets |-> <<GetVms>>]
             ELSE LET r == construct_vm_data(data.items[Min(hit)],
                                             include_public_ipv4, ipdata)
                  IN  [r EXCEPT !.gets = <<GetVms>> \o r.gets]
    ELSE [fault |-> FALSE, vm |-> Empty, gets |-> <<GetVms>>]

-----------------------------------------------------------------------------
(* The provider: what an accepted request does to the remote state *)

ProvSetStatus(list, uuid, status) ==
    [i \in 1..Len(list) |->
        IF list[i]["uuid"] = uuid THEN [list[i] EXCEPT !["status"] = status]
        ELSE list[i]]

ProvPatchVm(list, uuid, vcpu, ram) ==
    [i \in 1..Len(list) |->
        IF list[i]["uuid"] = uuid
        THEN [list[i] EXCEPT !["vcpu"] = vcpu, !["memory"] = ram]
        ELSE list[i]]

ProvPatchDisk(list, uuid, disk_uuid, size) ==
    [i \in 1..Len(list) |->
        IF list[i]["uuid"] = uuid
        THEN [list[i] EXCEPT !["storage"] =
                 [j \in 1..Len(@) |->
                     IF @[j]["uuid"] = disk_uuid
                     THEN [@[j] EXCEPT !["size"] = size] ELSE @[j]]]
        ELSE list[i]]

ProvRemove(list, key, val) ==
    LET keep(e) == e[key] # val IN SelectSeq(list, keep)

ProvGet(list, uuid) ==
    list[Min({i \in 1..Len(list) : list[i]["uuid"] = uuid})]

Exists(list, key, val) == \E i \in 1..Len(list) : list[i][key] = val

\* a floating IP whose VM is gone may or may not keep its association
Released(e) == [k \in DOMAIN e \ {"assigned_to", "assigned_to_private_ip"} |-> e[k]]
ProvRelease(list, uuid) ==
    [i \in 1..Len(list) |->
        IF Has(list[i], "assigned_to") /\ list[i]["assigned_to"] = uuid
        THEN Released(list[i]) ELSE list[i]]

-----------------------------------------------------------------------------
(* How an invocation moves on or ends *)

NoFailure == [msg |-> "", msg_type |-> "none", kwargs |-> Empty]

NoLoc == [vm |-> Empty, current_vm |-> Empty, alias |-> TRUE,
          fail_result |-> Empty, is_success |-> TRUE,
          network |-> Empty, floating_ip |-> Empty, result |-> Empty,
          data |-> Empty]

\* self._module.exit_json(**res)
ExitJson(cs, res, l) ==
    /\ calls' = cs /\ loc' = l /\ pc' = "done"
    /\ outcome' = "exit" /\ result' = res /\ failure' = NoFailure

\* self._module.fail_json(msg, **kwargs); msg_type tells a str from a dict
FailJson(cs, msg, msg_type, kwargs, l) ==
    /\ calls' = cs /\ loc' = l /\ pc' = "done"
    /\ outcome' = "fail" /\ result' = Empty
    /\ failure' = [msg |-> msg, msg_type |-> msg_type, kwargs |-> kwargs]

\* an exception nobody catches (KeyError, TypeError)
Fault(cs, l) ==
    /\ calls' = cs /\ loc' = l /\ pc' = "done"
    /\ outcome' = "fault" /\ result' = Empty /\ failure' = NoFailure

Goto(cs, label, l) ==
    /\ calls' = cs /\ loc' = l /\ pc' = label
    /\ outcome' = "none" /\ result' = Empty /\ failure' = NoFailure

-----------------------------------------------------------------------------
(* vm.py *)

os_version_choices ==
    [almalinux |-> {"9.x", "8.x"}, bsd |-> {"freebsd_12.2"},
     centos |-> {"9.x"}, cloudlinux |-> {"8.4", "7.9"},
     debian |-> {"11", "12"}, fedora |-> {"32", "34", "36"},
     opensuse |-> {"15.3"}, oracle |-> {"9.x"},
     rhel |-> {"server_7.9", "server_8.4"}, rocky |-> {"linux_8.4", "9.x"},
     ubuntu |-> {"21.04", "22.04-lts", "24.04-lts", "20.04-lts"},
     vzlinux |-> {"8.x"}, windows |-> {"2019"}]

VmPath == "user-resource/vm"
IpPath == "network/ip_addresses"

\* a check that lets every pair through
os_version_any(os_name, os_version) == os_name \in DOMAIN os_version_choices

\* Vm._create_vm: the check on the OS family and version
os_version_ok(os_name, os_version) == os_version \in os_version_choices[os_name]

\* Vm._get_network: the test that ends the invocation
network_missing(network) == ~Has(network, "uuid")

\* Vm._resize_vm, Vm._resize_ram_vcpu, Vm._resize_disks: the comparisons
resize_is_changed(p, vm) ==
    p.disks # vm["disks"] \/ p.vcpu # vm["vcpu"] \/ p.ram # vm["ram"]
\* a comparison that looks at vcpu alone
ram_vcpu_is_changed_vcpu_only(p, vm) == p.vcpu # vm["vcpu"]

ram_vcpu_is_changed(p, vm) == p.vcpu # vm["vcpu"] \/ p.ram # vm["ram"]
disks_is_changed(p, vm) == p.disks # vm["disks"]

\* the flag read the wrong way round
action_swapped(active) == IF active THEN "stop" ELSE "start"

\* a suffix that is start whatever the flag
action_start(active) == "start"

\* a suffix that is stop whatever the flag
action_stop(active) == "stop"

\* Vm._activate_vm: the endpoint suffix
action(active) == IF active THEN "start" ELSE "stop"

\* the status the provider reports once the request is accepted
StatusAfter(act) == IF act = "start" THEN "running" ELSE "stopped"

\* the cascade addressing the floating IP by the VM's uuid
cascade_target_uuid(vm) == vm["uuid"]

\* Vm.main: what the cascade hands to _delete_public_ipv4
cascade_target(vm) == vm["public_ipv4"]

\* a cascade that does not look at the option
cascade_always(p) == TRUE

\* Vm.main: the test on remove_public_ipv4 after the VM was deleted
cascade_requested(p) == p.remove_public_ipv4

\* a rejected power-off before a resize that lets the resize go on
activate_vm_rejected_goes_on(cs, act, data, l) ==
    IF pc = "resize_stop" THEN Goto(cs, "resize_ram_vcpu", l)
    ELSE FailJson(cs, "Failed to " \o act \o " the VM.", "str",
                  [error |-> data], l)

\* Vm._activate_vm: the answer has no uuid
activate_vm_rejected(cs, act, data, l) ==
    FailJson(cs, "Failed to " \o act \o " the VM.", "str", [error |-> data], l)

\* Vm.main up to its first mutating request
VmBegin(p) ==
    LET g == get_vm(ListResp(vms), None, p.name, TRUE, ListResp(ips))
        vm == g.vm
        l == [NoLoc EXCEPT !.vm = vm, !.current_vm = vm]
    IN  /\ params' = p
        /\ before' = [vms |-> vms, ips |-> ips, nets |-> nets]
        /\ UNCHANGED <<vms, ips, nets, probe, found>>
        /\ IF g.fault THEN Fault(g.gets, NoLoc)
           ELSE CASE p.state = "present" ->
                    IF Has(vm, "uuid")
                    THEN ExitJson(g.gets, Upd(vm, "changed", FALSE), l)
                    ELSE LET network == get_existing_network(ListResp(nets),
                                                             p.network_name)
                             cs == g.gets \o <<GetNets>>
                         IN  IF network_missing(network)
                             THEN FailJson(cs, "Failed to create the VM.", "str",
                                      [error |-> "The selected network is not found."], l)
                             ELSE IF ~os_version_ok(p.os_name, p.os_version)
                             THEN FailJson(cs, "Failed to create the VM.", "str",
                                      [error |-> "os_version must be one of the choices"], l)
                             ELSE Goto(cs, "create_vm", [l EXCEPT !.network = network])
                  [] p.state = "resize" ->
                    IF Has(vm, "uuid")
                    THEN IF resize_is_changed(p, vm)
                         THEN Goto(g.gets, "resize_stop", l)
                         ELSE ExitJson(g.gets, vm, l)
                    ELSE ExitJson(g.gets, vm, l)
                  [] p.state \in {"active", "inactive"} ->
                    Goto(g.gets, "activate_vm", l)
                  [] p.state = "absent" ->
                    IF Has(vm, "uuid")
                    THEN Goto(g.gets, "delete_vm", l)
                    ELSE ExitJson(g.gets, vm, l)

\* Vm._create_vm from its POST on
CreateVm ==
    /\ pc = "create_vm"
    /\ LET form == [network_uuid |-> loc.network["uuid"], name |-> params.name,
                    os_name |-> params.os_name, os_version |-> params.os_version,
                    disks |-> params.disks, vcpu |-> params.vcpu, ram |-> params.ram]
           cs(ok) == Append(calls, Req("POST", VmPath, "", form, ok))
       IN  \/ \* accepted: the provider answers with the new VM
              LET data == RawVm(params.name, params.vcpu, params.ram,
                                params.disks, "running")
                  r == construct_vm_data(data, TRUE, ListResp(ips))
              IN  /\ vms' = Append(vms, data)
                  /\ IF r.fault THEN Fault(cs(TRUE) \o r.gets, loc)
                     ELSE ExitJson(cs(TRUE) \o r.gets, Upd(r.vm, "changed", TRUE), loc)
           \/ \* rejected: fail_json(msg=..., **data), the raw body as kwargs
              \E data \in ErrBodies :
                  /\ vms' = vms
                  /\ IF Has(data, "msg") THEN Fault(cs(FALSE), loc)
                     ELSE FailJson(cs(FALSE), "Failed to create the VM.", "str",
                                   data, loc)
    /\ UNCHANGED <<ips, nets, params, run, prev, before, probe, found>>

\* Vm._resize_vm: self._activate_vm(current_vm, False)
ResizeStop ==
    /\ pc = "resize_stop"
    /\ LET cur == loc.current_vm
           act == action(FALSE)
           cs(ok) == Append(calls, Req("POST", VmPath \o "/" \o act, "",
                                       [uuid |-> cur["uuid"]], ok))
       IN  \/ /\ vms' = ProvSetStatus(vms, cur["uuid"], StatusAfter(act))
              /\ Goto(cs(TRUE), "resize_ram_vcpu",
                      [loc EXCEPT !.current_vm =
                          Upd(cur, "changed", StatusAfter(act) # cur["status"])])
           \/ \E data \in ErrBodies :
                  /\ vms' = vms
                  /\ activate_vm_rejected(cs(FALSE), act, data, loc)
    /\ UNCHANGED <<ips, nets, params, run, prev, before, probe, found>>

\* Vm._resize_vm: vm = self._resize_ram_vcpu(current_vm) and the test after it
ResizeRamVcpu ==
    /\ pc = "resize_ram_vcpu"
    /\ LET cur == loc.current_vm
           form == [uuid |-> cur["uuid"], name |-> params.name,
                    vcpu |-> params.vcpu, ram |-> params.ram]
           cs(ok) == Append(calls, Req("PATCH", VmPath, "", form, ok))
       IN  IF ram_vcpu_is_changed(params, cur)
           THEN \/ LET list == ProvPatchVm(vms, cur["uuid"], params.vcpu, params.ram)
                       r == construct_vm_data(ProvGet(list, cur["uuid"]), TRUE,
                                              ListResp(ips))
                   IN  /\ vms' = list
                       /\ IF r.fault THEN Fault(cs(TRUE) \o r.gets, loc)
                          ELSE Goto(cs(TRUE) \o r.gets, "resize_disks",
                                    [loc EXCEPT !.vm = r.vm, !.alias = FALSE])
                \/ \E data \in ErrBodies :
                       LET vm == [msg |-> "Failed to resize the VM.", errors |-> data]
                       IN  /\ vms' = vms
                           /\ Goto(cs(FALSE), "resize_disks",
                                   [loc EXCEPT !.vm = vm, !.alias = FALSE,
                                        !.fail_result = Upd(@, "error_ram_vcpu", vm),
                                        !.is_success = FALSE])
           ELSE /\ vms' = vms
                /\ Goto(calls, "resize_disks",
                        [loc EXCEPT !.vm = cur, !.alias = TRUE])
    /\ UNCHANGED <<ips, nets, params, run, prev, before, probe, found>>

\* Vm._resize_vm: vm = self._resize_disks(current_vm) and the test after it;
\* on success vm is current_vm itself, updated in place
ResizeDisks ==
    /\ pc = "resize_disks"
    /\ LET cur == loc.current_vm
           form == [uuid |-> cur["uuid"], disk_uuid |-> cur["disk_uuid"],
                    size_gb |-> params.disks]
           cs(ok) == Append(calls, Req("PATCH", VmPath \o "/storage", "", form, ok))
       IN  IF disks_is_changed(params, cur)
           THEN \/ LET data == [uuid |-> cur["disk_uuid"], size |-> params.disks]
                       upd == Upd(cur, "disks", data["size"])
                   IN  /\ vms' = ProvPatchDisk(vms, cur["uuid"], cur["disk_uuid"],
                                               params.disks)
                       /\ Goto(cs(TRUE), "resize_start",
                               [loc EXCEPT !.current_vm = upd, !.vm = upd,
                                           !.alias = TRUE])
                \/ \E data \in ErrBodies :
                       LET vm == [msg |-> "Failed to resize the VM.", errors |-> data]
                       IN  /\ vms' = vms
                           /\ Goto(cs(FALSE), "resize_start",
                                   [loc EXCEPT !.vm = vm, !.alias = FALSE,
                                        !.fail_result = Upd(@, "error_disks", vm),
                                        !.is_success = FALSE])
           ELSE /\ vms' = vms
                /\ Goto(calls, "resize_start",
                        [loc EXCEPT !.vm = cur, !.alias = TRUE])
    /\ UNCHANGED <<ips, nets, params, run, prev, before, probe, found>>

\* Vm._resize_vm: self._activate_vm(current_vm), vm.update(changed=...),
\* fail_json(fail_result) or return, then exit_json in Vm.main
ResizeStart ==
    /\ pc = "resize_start"
    /\ LET cur == loc.current_vm
           act == action(TRUE)
           cs(ok) == Append(calls, Req("POST", VmPath \o "/" \o act, "",
                                       [uuid |-> cur["uuid"]], ok))
       IN  \/ LET vm == Upd(IF loc.alias THEN cur ELSE loc.vm, "changed", TRUE)
                  fail_result ==
                      IF Has(loc.fail_result, "error_disks")
                      THEN Upd(loc.fail_result, "error_disks", vm)
                      ELSE loc.fail_result
                  l == [loc EXCEPT !.vm = vm, !.fail_result = fail_result,
                            !.current_vm = IF loc.alias THEN vm
                                           ELSE Upd(cur, "changed",
                                                    StatusAfter(act) # cur["status"])]
              IN  /\ vms' = ProvSetStatus(vms, cur["uuid"], StatusAfter(act))
                  /\ IF ~loc.is_success
                     THEN FailJson(cs(TRUE), fail_result, "dict", Empty, l)
                     ELSE ExitJson(cs(TRUE), vm, l)
           \/ \E data \in ErrBodies :
                  /\ vms' = vms
                  /\ activate_vm_rejected(cs(FALSE), act, data, loc)
    /\ UNCHANGED <<ips, nets, params, run, prev, before, probe, found>>

\* Vm._activate_vm called from Vm.main for desired active / inactive
ActivateVm ==
    /\ pc = "activate_vm"
    /\ LET vm == loc.vm
           act == action(params.state = "active")
       IN  IF ~Has(vm, "uuid")
           THEN /\ vms' = vms
                /\ Fault(calls, loc)     \* vm['uuid'] raises KeyError
           ELSE LET cs(ok) == Append(calls, Req("POST", VmPath \o "/" \o act, "",
                                                [uuid |-> vm["uuid"]], ok))
                IN  \/ /\ vms' = ProvSetStatus(vms, vm["uuid"], StatusAfter(act))
                       /\ ExitJson(cs(TRUE),
                              Upd(vm, "changed", StatusAfter(act) # vm["status"]), loc)
                    \/ \E data \in ErrBodies :
                           /\ vms' = vms
                           /\ activate_vm_rejected(cs(FALSE), act, data, loc)
    /\ UNCHANGED <<ips, nets, params, run, prev, before, probe, found>>

\* Vm._delete_vm and the branch on remove_public_ipv4 in Vm.main
DeleteVm ==
    /\ pc = "delete_vm"
    /\ LET cs(ok) == Append(calls, Req("DELETE", VmPath, "",
                                       [uuid |-> loc.vm["uuid"]], ok))
           vm == Upd(loc.vm, "changed", TRUE)
       IN  \/ /\ vms' = ProvRemove(vms, "uuid", loc.vm["uuid"])
              /\ \E release \in BOOLEAN :
                     ips' = IF release THEN ProvRelease(ips, loc.vm["uuid"]) ELSE ips
              /\ IF cascade_requested(params)
                 THEN Goto(cs(TRUE), "delete_public_ipv4", [loc EXCEPT !.vm = vm])
                 ELSE ExitJson(cs(TRUE), vm, [loc EXCEPT !.vm = vm])
           \/ \E data \in ErrBodies :
                  /\ vms' = vms /\ ips' = ips
                  /\ FailJson(cs(FALSE), "Failed to delete the VM.", "str",
                              [error |-> data], loc)
    /\ UNCHANGED <<nets, params, run, prev, before, probe, found>>

\* Base._delete_public_ipv4(vm['public_ipv4']) called from Vm.main, then exit_json
DeletePublicIpv4 ==
    /\ pc = "delete_public_ipv4"
    /\ LET target == cascade_target(loc.vm)
           cs(ok) == Append(calls, Req("DELETE", IpPath, target, Empty, ok))
       IN  \/ /\ ips' = ProvRemove(ips, "address", target)
              /\ ExitJson(cs(TRUE), loc.vm, loc)
           \/ /\ ips' = ips
              /\ FailJson(cs(FALSE), "Failed to delete the VM.", "str",
                     [error |-> "There was a problem with the request when deleting the public IPv4 address."],
                     loc)
    /\ UNCHANGED <<vms, nets, params, run, prev, before, probe, found>>

-----------------------------------------------------------------------------
(* floating_ip.py *)

\* what the provider does to an address on an accepted assign / unassign; an
\* unassigned address either loses its association keys or has them null
ProvAssign(list, address, vm_uuid, private_ipv4) ==
    [i \in 1..Len(list) |->
        IF list[i]["address"] = address
        THEN [assigned_to |-> vm_uuid, assigned_to_private_ip |-> private_ipv4]
                 @@ list[i]
        ELSE list[i]]

ProvUnassign(list, address, nulls) ==
    [i \in 1..Len(list) |->
        IF list[i]["address"] = address
        THEN IF nulls
             THEN [assigned_to |-> None, assigned_to_private_ip |-> None] @@ list[i]
             ELSE Released(list[i])
        ELSE list[i]]

ProvGetIp(list, address) ==
    list[Min({i \in 1..Len(list) : list[i]["address"] = address})]

\* FloatingIp._assign_to_vm: what it returns for the provider's answer
assign_to_vm(data) ==
    IF Has(data, "uuid") THEN data
    ELSE [msg |-> "Failed to assign the floating IP into the selected VM.",
          error |-> data]

\* an unassign that clears the VM uuid and leaves a private address behind
unassign_from_vm_keep_ip(data) ==
    IF Has(data, "uuid")
    THEN [assigned_to |-> "", assigned_to_private_ip |-> "kept"] @@ data
    ELSE [msg |-> "Failed to unassign the floating IP from the selected VM.",
          error |-> data]

\* FloatingIp._unassign_from_vm: what it returns for the provider's answer
unassign_from_vm(data) ==
    IF Has(data, "uuid")
    THEN [assigned_to |-> "", assigned_to_private_ip |-> ""] @@ data
    ELSE [msg |-> "Failed to unassign the floating IP from the selected VM.",
          error |-> data]

\* a merge step that lets a failed sub-operation through
update_assigned_floating_ip_silent(floating_ip, vm_name) ==
    IF Has(floating_ip, "uuid")
    THEN [fail |-> FALSE,
          result |-> [vm_name |-> vm_name,
                      assigned_to_vm_uuid |-> floating_ip["assigned_to"],
                      private_ipv4_address |-> floating_ip["assigned_to_private_ip"]]]
    ELSE [fail |-> FALSE, result |-> Empty]

\* FloatingIp._update_assigned_floating_ip: returns [fail, result]; fail means
\* it called fail_json(**floating_ip)
update_assigned_floating_ip(floating_ip, vm_name) ==
    IF Has(floating_ip, "uuid")
    THEN [fail |-> FALSE,
          result |-> [vm_name |-> vm_name,
                      assigned_to_vm_uuid |-> floating_ip["assigned_to"],
                      private_ipv4_address |-> floating_ip["assigned_to_private_ip"]]]
    ELSE IF Has(floating_ip, "msg")
    THEN [fail |-> TRUE, result |-> Empty]
    ELSE [fail |-> FALSE, result |-> Empty]

\* a test that assigns whenever a VM was requested
needs_assign_always(vm, floating_ip) == Has(vm, "uuid")

\* FloatingIp.main: the test that decides to assign a found floating IP
needs_assign(vm, floating_ip) ==
    Has(vm, "uuid") /\ floating_ip["assigned_to_vm_uuid"] = ""

\* FloatingIp.main up to its first mutating request
FipBegin(p) ==
    LET floating_ip == get_public_ipv4(ListResp(ips), None, None, p.name)
        g == IF p.vm_name # None
             THEN get_vm(ListResp(vms), None, p.vm_name, TRUE, ListResp(ips))
             ELSE [fault |-> FALSE, vm |-> Empty, gets |-> <<>>]
        vm == g.vm
        cs == <<GetIps>> \o g.gets
        l == [NoLoc EXCEPT !.vm = vm, !.floating_ip = floating_ip]
    IN  /\ params' = p
        /\ before' = [vms |-> vms, ips |-> ips, nets |-> nets]
        /\ UNCHANGED <<vms, ips, nets, probe, found>>
        /\ IF g.fault THEN Fault(cs, l)
           ELSE IF p.vm_name # None /\ ~Has(vm, "uuid")
           THEN FailJson(cs,
                    "Failed to create the floating IP. The VM name is provided, but no VM was found.",
                    "str", Empty, l)
           ELSE IF IsNone(floating_ip)
           THEN Fault(cs, l)      \* 'uuid' in None raises TypeError
           ELSE CASE p.state = "present" ->
                    IF Has(floating_ip, "uuid")
                    THEN LET fip == [vm_name |-> IF p.vm_name = None THEN ""
                                                 ELSE p.vm_name,
                                     changed |-> FALSE] @@ floating_ip
                         IN  IF needs_assign(vm, fip)
                             THEN Goto(cs, "assign_to_vm",
                                       [l EXCEPT !.floating_ip = fip])
                             ELSE ExitJson(cs, fip, [l EXCEPT !.floating_ip = fip])
                    ELSE Goto(cs, "create_floating_ip", l)
                  [] p.state = "absent" ->
                    IF Has(floating_ip, "uuid")
                    THEN Goto(cs, "delete_floating_ip", l)
                    ELSE ExitJson(cs, Upd(floating_ip, "changed", FALSE), l)
                  [] p.state = "unassign" ->
                    IF Has(floating_ip, "uuid")
                    THEN Goto(cs, "unassign_from_vm", l)
                    ELSE ExitJson(cs, Upd(floating_ip, "changed", FALSE), l)

\* FloatingIp.main, desired present, found: _assign_to_vm,
\* _update_assigned_floating_ip, floating_ip.update, exit_json
AssignToVm ==
    /\ pc = "assign_to_vm"
    /\ LET fip == loc.floating_ip
           vm == loc.vm
           cs(ok) == Append(calls, Req("POST", IpPath \o "/assign", fip["public_ipv4"],
                                       [vm_uuid |-> vm["uuid"]], ok))
           finish(c, data) ==
               LET u == update_assigned_floating_ip(assign_to_vm(data), vm["name"])
               IN  IF u.fail
                   THEN FailJson(c, assign_to_vm(data)["msg"], "str",
                                 [error |-> assign_to_vm(data)["error"]], loc)
                   ELSE ExitJson(c, [changed |-> TRUE] @@ u.result @@ fip, loc)
       IN  \/ LET list == ProvAssign(ips, fip["public_ipv4"], vm["uuid"],
                                     vm["private_ipv4"])
              IN  /\ ips' = list
                  /\ finish(cs(TRUE), ProvGetIp(list, fip["public_ipv4"]))
           \/ \E data \in ErrBodies :
                  /\ ips' = ips
                  /\ finish(cs(FALSE), data)
    /\ UNCHANGED <<vms, nets, params, run, prev, before, probe, found>>

\* FloatingIp._create_floating_ip up to the assign it may make
CreateFloatingIp ==
    /\ pc = "create_floating_ip"
    /\ LET cs(ok) == Append(calls, Req("POST", IpPath, "",
                                       [name |-> params.name], ok))
       IN  \/ \E nulls \in BOOLEAN :
                  LET data == IF nulls THEN RawIpNull(params.name)
                              ELSE RawIpBare(params.name)
                      res == [uuid |-> data["uuid"], name |-> data["name"],
                              public_ipv4 |-> data["address"], vm_name |-> "",
                              assigned_to_vm_uuid |-> "",
                              private_ipv4_address |-> "",
                              enabled |-> data["enabled"], changed |-> TRUE]
                  IN  /\ ips' = Append(ips, data)
                      /\ IF Has(loc.vm, "uuid")
                         THEN Goto(cs(TRUE), "create_assign_to_vm",
                                   [loc EXCEPT !.result = res])
                         ELSE Fault(cs(TRUE), [loc EXCEPT !.result = res])
                              \* vm['name'] raises KeyError on the empty vm
           \/ \E data \in ErrBodies :
                  /\ ips' = ips
                  /\ FailJson(cs(FALSE), "Failed to create the floating IP.", "str",
                              [error |-> data], loc)
    /\ UNCHANGED <<vms, nets, params, run, prev, before, probe, found>>

\* FloatingIp._create_floating_ip: _assign_to_vm,
\* _update_assigned_floating_ip, result.update, exit_json
CreateAssignToVm ==
    /\ pc = "create_assign_to_vm"
    /\ LET res == loc.result
           vm == loc.vm
           cs(ok) == Append(calls, Req("POST", IpPath \o "/assign", res["public_ipv4"],
                                       [vm_uuid |-> vm["uuid"]], ok))
           finish(c, data) ==
               LET u == update_assigned_floating_ip(assign_to_vm(data), vm["name"])
               IN  IF u.fail
                   THEN FailJson(c, assign_to_vm(data)["msg"], "str",
                                 [error |-> assign_to_vm(data)["error"]], loc)
                   ELSE ExitJson(c, u.result @@ res, loc)
       IN  \/ LET list == ProvAssign(ips, res["public_ipv4"], vm["uuid"],
                                     vm["private_ipv4"])
              IN  /\ ips' = list
                  /\ finish(cs(TRUE), ProvGetIp(list, res["public_ipv4"]))
           \/ \E data \in ErrBodies :
                  /\ ips' = ips
                  /\ finish(cs(FALSE), data)
    /\ UNCHANGED <<vms, nets, params, run, prev, before, probe, found>>

\* FloatingIp.main, desired absent, found: _delete_public_ipv4,
\* floating_ip.update(changed=True), exit_json
DeleteFloatingIp ==
    /\ pc = "delete_floating_ip"
    /\ LET fip == loc.floating_ip
           cs(ok) == Append(calls, Req("DELETE", IpPath, fip["public_ipv4"],
                                       Empty, ok))
       IN  \/ /\ ips' = ProvRemove(ips, "address", fip["public_ipv4"])
              /\ ExitJson(cs(TRUE), Upd(fip, "changed", TRUE), loc)
           \/ /\ ips' = ips
              /\ FailJson(cs(FALSE), "Failed to delete the VM.", "str",
                     [error |-> "There was a problem with the request when deleting the public IPv4 address."],
                     loc)
    /\ UNCHANGED <<vms, nets, params, run, prev, before, probe, found>>

\* FloatingIp.main, desired unassign, found: _unassign_from_vm,
\* _update_assigned_floating_ip, floating_ip.update, exit_json
UnassignFromVm ==
    /\ pc = "unassign_from_vm"
    /\ LET fip == loc.floating_ip
           cs(ok) == Append(calls, Req("POST", IpPath \o "/unassign",
                                       fip["public_ipv4"], Empty, ok))
           finish(c, data) ==
               LET u == update_assigned_floating_ip(unassign_from_vm(data), "")
               IN  IF u.fail
                   THEN FailJson(c, unassign_from_vm(data)["msg"], "str",
                                 [error |-> unassign_from_vm(data)["error"]], loc)
                   ELSE ExitJson(c, [changed |-> fip["assigned_to_vm_uuid"] # ""]
                                        @@ u.result @@ fip, loc)
       IN  \/ \E nulls \in BOOLEAN :
                  LET list == ProvUnassign(ips, fip["public_ipv4"], nulls)
                  IN  /\ ips' = list
                      /\ finish(cs(TRUE), ProvGetIp(list, fip["public_ipv4"]))
           \/ \E data \in ErrBodies :
                  /\ ips' = ips
                  /\ finish(cs(FALSE), data)
    /\ UNCHANGED <<vms, nets, params, run, prev, before, probe, found>>

-----------------------------------------------------------------------------
(* create_vm.py: the standalone create module, one action for the handler *)

CreateVMMain(p) ==
    /\ params' = p
    /\ before' = [vms |-> vms, ips |-> ips, nets |-> nets]
    /\ LET form == [network_uuid |-> p.network_name, name |-> p.name,
                    os_name |-> p.os_name, os_version |-> p.os_version,
                    disks |-> p.disks, vcpu |-> p.vcpu, ram |-> p.ram]
           cs(ok) == <<Req("POST", VmPath, "", form, ok)>>
       IN  IF ~os_version_ok(p.os_name, p.os_version)
           THEN /\ vms' = vms
                /\ FailJson(<<>>, "Create VM fail", "str",
                            [error |-> "os_version must be one of the choices"], NoLoc)
           ELSE \/ LET data == RawVm(p.name, p.vcpu, p.ram, p.disks, "running")
                   IN  /\ ~Exists(vms, "name", p.name)
                       /\ vms' = Append(vms, data)
                       /\ ExitJson(cs(TRUE),
                              [uuid |-> data["uuid"], hostname |-> data["hostname"],
                               private_ipv4 |-> data["private_ipv4"],
                               billing_account |-> data["billing_account"]], NoLoc)
                \/ \E data \in ErrBodies :
                       /\ vms' = vms
                       /\ IF Has(data, "msg") THEN Fault(cs(FALSE), NoLoc)
                          ELSE FailJson(cs(FALSE), "Create VM fail", "str", data, NoLoc)
    /\ UNCHANGED <<ips, nets, probe, found>>

-----------------------------------------------------------------------------
(* network.py *)

NetPath == "network/network"

\* a second network of the same name: the provider does not keep names unique
RawNetTwin(name) ==
    [uuid |-> "net-uuid-" \o name \o "-twin", name |-> name,
     subnet |-> "10.0.1.0/24", is_default |-> FALSE]

\* a lookup that never finds
get_existing_network_by_name_never(data, name) == Empty

\* Network.get_existing_network_by_name
get_existing_network_by_name(data, name) ==
    IF data.is_list /\ Len(data.items) > 0
    THEN LET hit == {i \in 1..Len(data.items) : data.items[i]["name"] = name}
         IN  IF hit = {} THEN Empty
             ELSE LET value == data.items[Min(hit)]
                  IN  [uuid |-> value["uuid"], name |-> value["name"],
                       subnet |-> value["subnet"],
                       is_default |-> value["is_default"]]
    ELSE Empty

\* a record that reports every created network as the default one
created_network_default(data) ==
    [uuid |-> data["uuid"], name |-> data["name"], subnet |-> data["subnet"],
     is_default |-> TRUE, changed |-> TRUE]

\* Network.main: the record built from the answer to the create POST
created_network(data) ==
    [uuid |-> data["uuid"], name |-> data["name"], subnet |-> data["subnet"],
     is_default |-> data["is_default"], changed |-> TRUE]

\* a delete addressed by the network's name
delete_network_target_name(network) == network["name"]

\* Network.main: what the DELETE URL ends in
delete_network_target(network) == network["uuid"]

\* Network.main up to its first mutating request
NetworkBegin(p) ==
    LET network == get_existing_network_by_name(ListResp(nets), p.name)
        cs == <<GetNets>>
        l == [NoLoc EXCEPT !.network = network]
    IN  /\ params' = p
        /\ before' = [vms |-> vms, ips |-> ips, nets |-> nets]
        /\ UNCHANGED <<vms, ips, nets, probe, found>>
        /\ CASE p.state = "present" ->
                  IF Has(network, "uuid")
                  THEN ExitJson(cs, Upd(network, "changed", FALSE), l)
                  ELSE Goto(cs, "create_network", l)
             [] p.state = "absent" ->
                  IF Has(network, "uuid")
                  THEN Goto(cs, "delete_network", l)
                  ELSE ExitJson(cs, Upd(network, "changed", FALSE), l)

\* Network.main, desired present, not found: the POST and what follows it
CreateNetwork ==
    /\ pc = "create_network"
    /\ LET cs(ok) == Append(calls, Req("POST", NetPath, "?name=" \o params.name,
                                       Empty, ok))
       IN  \/ \E dflt \in BOOLEAN :
                  LET data == RawNet(params.name, dflt)
                  IN  /\ nets' = Append(nets, data)
                      /\ ExitJson(cs(TRUE), created_network(data), loc)
           \/ \E data \in ErrBodies :
                  /\ nets' = nets
                  /\ FailJson(cs(FALSE), "Create network fail", "str",
                              [error |-> data], loc)
    /\ UNCHANGED <<vms, ips, params, run, prev, before, probe, found>>

\* Network.main, desired absent, found: the DELETE and what follows it
DeleteNetwork ==
    /\ pc = "delete_network"
    /\ LET network == loc.network
           target == delete_network_target(network)
           cs(ok) == Append(calls, Req("DELETE", NetPath, target, Empty, ok))
       IN  \/ /\ nets' = ProvRemove(nets, "uuid", target)
              /\ ExitJson(cs(TRUE), Upd(network, "changed", TRUE), loc)
           \/ /\ nets' = nets
              /\ FailJson(cs(FALSE), "Delete network fail", "str",
                          [error |-> "Something is wrong with the request."], loc)
    /\ UNCHANGED <<vms, ips, params, run, prev, before, probe, found>>

-----------------------------------------------------------------------------
(* block_storage.py *)

StoragePath == "user-resource/vm/storage"

\* Base._get_vm(self, uuid=None, name=None, include_public_ipv4=True): the
\* parameters a caller may pass by keyword
get_vm_parameters == {"uuid", "name", "include_public_ipv4"}

\* BlockStorage.main: the keywords of self._get_vm(name=vm_name,
\* include_storage=True)
block_storage_get_vm_keywords == {"name", "include_storage"}

\* the provider attaches a new disk to the VM
ProvAttach(list, uuid, disk) ==
    [i \in 1..Len(list) |->
        IF list[i]["uuid"] = uuid
        THEN [list[i] EXCEPT !["storage"] = Append(@, disk)]
        ELSE list[i]]

\* BlockStorage.main with _create_block_storage and _delete_block_storage.
\* A keyword the callee does not have raises TypeError when the call is bound,
\* before the callee sends anything.  _get_disk_from_vm reads
\* vm['storage_list'], a key the record of _construct_vm_data does not have.
BlockStorageBegin(p) ==
    LET g == get_vm(ListResp(vms), None, p.vm_name, TRUE, ListResp(ips))
        vm == g.vm
        cs == g.gets
        l == [NoLoc EXCEPT !.vm = vm]
    IN  /\ params' = p
        /\ before' = [vms |-> vms, ips |-> ips, nets |-> nets]
        /\ UNCHANGED <<ips, nets, probe, found>>
        /\ IF ~(block_storage_get_vm_keywords \subseteq get_vm_parameters)
           THEN vms' = vms /\ Fault(<<>>, NoLoc)
           ELSE IF g.fault
           THEN vms' = vms /\ Fault(cs, l)
           ELSE IF p.vm_name # None /\ ~Has(vm, "uuid")
           THEN /\ vms' = vms
                /\ FailJson(cs,
                     "Failed to create the block storage. The VM name is provided, but no VM was found.",
                     "str", Empty, l)
           ELSE CASE p.state = "present" ->
                    LET form == [uuid |-> vm["uuid"], size_gb |-> p.size]
                        c(ok) == Append(cs, Req("POST", StoragePath, "", form, ok))
                        data == [uuid |-> "disk-uuid-new", name |-> "disk-new",
                                 size |-> p.size, primary |-> FALSE]
                    IN  \/ /\ vms' = ProvAttach(vms, vm["uuid"], data)
                           /\ ExitJson(c(TRUE),
                                       [uuid |-> data["uuid"], name |-> data["name"],
                                        size |-> data["size"],
                                        vm_name |-> vm["name"], changed |-> TRUE], l)
                        \/ \E err \in ErrBodies :
                               /\ vms' = vms
                               /\ FailJson(c(FALSE),
                                           "Failed to create the block storage.",
                                           "str", [error |-> err], l)
                  [] p.state = "absent" ->
                    vms' = vms /\ Fault(cs, l)      \* KeyError: 'storage_list'

-----------------------------------------------------------------------------
(* get_network.py *)

\* the provider answers the GET with something that is not a list
NotAListBody(body) == [is_list |-> FALSE, items |-> <<>>, body |-> body]

\* response.json()
json(data) == IF data.is_list THEN data.items ELSE data.body

\* a test that lets an empty list through
get_network_fails_not_list_only(data) == ~data.is_list

\* GetNetwork.main: the test that sends the answer to fail_json
get_network_fails(data) ==
    ~data.is_list \/ (data.is_list /\ Len(data.items) <= 0)

\* main returns without a call of exit_json or fail_json
Return(cs, l) ==
    /\ calls' = cs /\ loc' = l /\ pc' = "done"
    /\ outcome' = "return" /\ result' = Empty /\ failure' = NoFailure

\* GetNetwork.main
GetNetworkBegin(p) ==
    \E data \in {ListResp(nets)} \cup {NotAListBody(b) : b \in ErrBodies} :
        LET cs == <<Req("GET", "network/networks", "", Empty, data.is_list)>>
            l == [NoLoc EXCEPT !.data = data]
            hit == {i \in 1..Len(data.items) : data.items[i]["is_default"]}
        IN  /\ params' = p
            /\ before' = [vms |-> vms, ips |-> ips, nets |-> nets]
            /\ UNCHANGED <<vms, ips, nets, probe, found>>
            /\ IF get_network_fails(data)
               THEN FailJson(cs, "Get network fail", "str",
                             [error |-> json(data)], l)
               ELSE IF hit = {} THEN Return(cs, l)
               ELSE LET value == data.items[Min(hit)]
                    IN  ExitJson(cs, [uuid |-> value["uuid"],
                                      name |-> value["name"],
                                      subnet |-> value["subnet"]], l)

-----------------------------------------------------------------------------
(* get_public_ip.py *)

\* GetPublicIP.main, one turn of the loop: "raise" (KeyError on a missing
\* association key), "hit" (is_found) or "miss"
get_public_ip_entry(value, private_ipv4, vm_uuid) ==
    IF ~Has(value, "assigned_to_private_ip") THEN "raise"
    ELSE IF value["assigned_to_private_ip"] = private_ipv4 THEN "hit"
    ELSE IF ~Has(value, "assigned_to") THEN "raise"
    ELSE IF value["assigned_to"] = vm_uuid THEN "hit"
    ELSE "miss"

\* GetPublicIP.main from response.json() on: returns [raised, value], value
\* being the kwargs of exit_json, or those of fail_json (they have a msg)
get_public_ip(data, private_ipv4, vm_uuid) ==
    IF ~data.is_list \/ (data.is_list /\ Len(data.items) <= 0)
    THEN [raised |-> FALSE,
          value |-> [msg |-> "Get public IPv4 fail", error |-> json(data)]]
    ELSE LET stop == {i \in 1..Len(data.items) :
                         get_public_ip_entry(data.items[i], private_ipv4,
                                             vm_uuid) # "miss"}
         IN  IF stop = {}
             THEN [raised |-> FALSE,
                   value |-> [msg |-> "Get public IPv4 fail",
                              error |-> "Public IPv4 address is not found"]]
             ELSE LET value == data.items[Min(stop)]
                      res == [uuid |-> value["uuid"],
                                 public_ipv4 |-> value["address"],
                                 enabled |-> value["enabled"]]
                  IN  IF get_public_ip_entry(value, private_ipv4, vm_uuid) = "raise"
                      THEN [raised |-> TRUE, value |-> Empty]
                      ELSE IF private_ipv4 # None
                      THEN IF Has(value, "assigned_to")
                           THEN [raised |-> FALSE,
                                 value |-> Upd(res, "assigned_to",
                                               value["assigned_to"])]
                           ELSE [raised |-> TRUE, value |-> Empty]
                      ELSE IF vm_uuid # None
                      THEN [raised |-> FALSE,
                            value |-> Upd(res, "assigned_to_private_ip",
                                          value["assigned_to_private_ip"])]
                      ELSE [raised |-> FALSE, value |-> res]

-----------------------------------------------------------------------------
(* The reconcilers: an invocation, then the same desired state again *)

\* an option that was not supplied is None (0 and FALSE where the option is
\* an int or a bool: the front end requires those wherever they are read)
NoParams ==
    [module |-> None, name |-> None, state |-> None, network_name |-> None,
     os_name |-> None, os_version |-> None, disks |-> 0, vcpu |-> 0, ram |-> 0,
     remove_public_ipv4 |-> FALSE, vm_name |-> None, size |-> 0]

OsPairs == {<<"ubuntu", "22.04-lts">>, <<"ubuntu", "9.x">>}

VmParams ==
    {[NoParams EXCEPT !.module = "vm", !.name = "vm1", !.state = "present",
                      !.network_name = n, !.os_name = os[1], !.os_version = os[2],
                      !.disks = d, !.vcpu = d, !.ram = d] :
        n \in {"net1", "net9"}, os \in OsPairs, d \in Sizes}
    \cup {[NoParams EXCEPT !.module = "vm", !.name = "vm1", !.state = "resize",
                           !.disks = d, !.vcpu = c, !.ram = r] :
        d \in Sizes, c \in Sizes, r \in Sizes}
    \cup {[NoParams EXCEPT !.module = "vm", !.name = "vm1", !.state = s] :
        s \in {"active", "inactive"}}
    \cup {[NoParams EXCEPT !.module = "vm", !.name = "vm1", !.state = "absent",
                           !.remove_public_ipv4 = b] : b \in BOOLEAN}

FipParams ==
    {[NoParams EXCEPT !.module = "floating_ip", !.name = "fip1", !.state = s,
                      !.vm_name = v] :
        s \in {"present", "absent", "unassign"}, v \in {None, "vm1"}}

NetworkParams ==
    {[NoParams EXCEPT !.module = "network", !.name = "net1", !.state = s] :
        s \in {"present", "absent"}}

\* vm_name is required; present requires size, absent requires name
BlockStorageParams ==
    {[NoParams EXCEPT !.module = "block_storage", !.vm_name = "vm1",
                      !.state = "present", !.size = d] : d \in Sizes}
    \cup {[NoParams EXCEPT !.module = "block_storage", !.vm_name = "vm1",
                           !.state = "absent", !.name = "disk-new"]}

GetNetworkParams == {[NoParams EXCEPT !.module = "get_network"]}

CreateVMParams ==
    {[NoParams EXCEPT !.module = "create_vm", !.name = "vm1",
                      !.network_name = "net-uuid-net1",
                      !.os_name = os[1], !.os_version = os[2],
                      !.disks = 1, !.vcpu = 1, !.ram = 1] : os \in OsPairs}

Statuses == {"running", "stopped"}

\* every size and status of vm1, alone or behind vm2
VmLists ==
    {<<RawVm("vm1", c, r, d, st)>> :
        c \in Sizes, r \in Sizes, d \in Sizes, st \in Statuses}
    \cup {<<RawVm("vm2", 1, 1, 1, "running"), RawVm("vm1", 1, 1, 1, st)>> :
             st \in Statuses}

\* no VM, another VM, the VM, the VM behind another one
FewVmLists ==
    {<<>>,
     <<RawVm("vm2", 1, 1, 1, "running")>>,
     <<RawVm("vm1", 1, 1, 1, "running")>>,
     <<RawVm("vm2", 1, 1, 1, "running"), RawVm("vm1", 1, 1, 1, "stopped")>>}

IpLists ==
    {<<>>,
     <<RawIpOf("fip1", "vm1")>>,
     <<RawIpOf("fip2", "vm2"), RawIpOf("fip1", "vm1")>>,
     <<RawIpOf("fip2", "vm2")>>,
     <<RawIpOf("fip1", "vm2")>>,
     <<RawIpBare("fip2")>>,
     <<RawIpBare("fip1")>>,
     <<RawIpNull("fip1")>>,
     <<RawIpNull("fip2"), RawIpOf("fip1", "vm1")>>,
     <<RawIpNull("fip2")>>}

FewIpLists == {<<>>, <<RawIpOf("fip1", "vm1")>>, <<RawIpBare("fip2")>>}

NetLists == {<<>>, <<RawNet("net1", TRUE)>>}

\* no network, the network, the network behind another one, another one, the
\* network and a second one of the same name
MoreNetLists ==
    {<<>>,
     <<RawNet("net1", TRUE)>>,
     <<RawNet("net2", TRUE), RawNet("net1", FALSE)>>,
     <<RawNet("net2", TRUE)>>,
     <<RawNet("net1", TRUE), RawNetTwin("net1")>>,
     <<RawNet("net2", TRUE), RawNetTwin("net1"), RawNet("net1", FALSE)>>}

\* what the provider holds when the first invocation begins: every VM
\* configuration with a few floating-IP lists, and a few VM lists with every
\* floating-IP list and network list, and every network list on its own
Worlds ==
    (VmLists \X FewIpLists \X {<<RawNet("net1", TRUE)>>})
    \cup (FewVmLists \X IpLists \X NetLists)
    \cup ({<<>>} \X {<<>>} \X MoreNetLists)
    \cup ({<<>>} \X {<<>>} \X {<<RawNet("net2", FALSE)>>})

NoBefore == [vms |-> <<>>, ips |-> <<>>, nets |-> <<>>]
\* of the previous invocation: how it ended, and the network list it began with
NoPrev == [outcome |-> "none", result |-> Empty, calls |-> <<>>, nets |-> <<>>]

Idle ==
    /\ params = NoParams /\ pc = "idle" /\ loc = NoLoc /\ calls = <<>>
    /\ outcome = "none" /\ result = Empty /\ failure = NoFailure
    /\ run = 0 /\ prev = NoPrev /\ before = NoBefore
    /\ probe = Empty /\ found = Empty

Init ==
    /\ \E w \in Worlds : vms = w[1] /\ ips = w[2] /\ nets = w[3]
    /\ Idle

\* the first invocation of Vm.main
VmMain ==
    /\ pc = "idle"
    /\ run' = 1 /\ prev' = prev
    /\ \E p \in VmParams : VmBegin(p)

\* the same desired state again, right after the previous invocation ended
VmMainAgain ==
    /\ pc = "done" /\ run < MaxRuns /\ params.module = "vm"
    /\ run' = run + 1
    /\ prev' = [outcome |-> outcome, result |-> result, calls |-> calls,
                 nets |-> before.nets]
    /\ VmBegin(params)

FloatingIpMain ==
    /\ pc = "idle"
    /\ run' = 1 /\ prev' = prev
    /\ \E p \in FipParams : FipBegin(p)

FloatingIpMainAgain ==
    /\ pc = "done" /\ run < MaxRuns /\ params.module = "floating_ip"
    /\ run' = run + 1
    /\ prev' = [outcome |-> outcome, result |-> result, calls |-> calls,
                 nets |-> before.nets]
    /\ FipBegin(params)

NetworkMain ==
    /\ pc = "idle"
    /\ run' = 1 /\ prev' = prev
    /\ \E p \in NetworkParams : NetworkBegin(p)

NetworkMainAgain ==
    /\ pc = "done" /\ run < MaxRuns /\ params.module = "network"
    /\ run' = run + 1
    /\ prev' = [outcome |-> outcome, result |-> result, calls |-> calls,
                 nets |-> before.nets]
    /\ NetworkBegin(params)

CreateVM ==
    /\ pc = "idle"
    /\ run' = 1 /\ prev' = prev
    /\ \E p \in CreateVMParams : CreateVMMain(p)

BlockStorageMain ==
    /\ pc = "idle"
    /\ run' = 1 /\ prev' = prev
    /\ \E p \in BlockStorageParams : BlockStorageBegin(p)

BlockStorageMainAgain ==
    /\ pc = "done" /\ run < MaxRuns /\ params.module = "block_storage"
    /\ run' = run + 1
    /\ prev' = [outcome |-> outcome, result |-> result, calls |-> calls,
                 nets |-> before.nets]
    /\ BlockStorageBegin(params)

GetNetworkMain ==
    /\ pc = "idle"
    /\ run' = 1 /\ prev' = prev
    /\ \E p \in GetNetworkParams : GetNetworkBegin(p)

Next ==
    \/ VmMain
    \/ VmMainAgain
    \/ CreateVm
    \/ ResizeStop
    \/ ResizeRamVcpu
    \/ ResizeDisks
    \/ ResizeStart
    \/ ActivateVm
    \/ DeleteVm
    \/ DeletePublicIpv4
    \/ FloatingIpMain
    \/ FloatingIpMainAgain
    \/ AssignToVm
    \/ CreateFloatingIp
    \/ CreateAssignToVm
    \/ DeleteFloatingIp
    \/ UnassignFromVm
    \/ CreateVM
    \/ NetworkMain
    \/ NetworkMainAgain
    \/ CreateNetwork
    \/ DeleteNetwork
    \/ BlockStorageMain
    \/ BlockStorageMainAgain
    \/ GetNetworkMain

Spec == Init /\ [][Next]_vars

-----------------------------------------------------------------------------
(* The locators on their own: one lookup on a collection drawn from the     *)
(* lists, empty or not, and the answers that are not a list                 *)

BoundedSeq(S, n) == UNION {[1..k -> S] : k \in 0..n}

NetData ==
    {ListResp(q) : q \in BoundedSeq({RawNet("net1", TRUE), RawNet("net2", FALSE)},
                                    MaxData)} \cup {NotAList}

IpEntries ==
    UNION {{RawIpBare(n), RawIpNull(n), RawIpOf(n, "vm1")} : n \in IpNames}

IpData == {ListResp(q) : q \in BoundedSeq(IpEntries, MaxData)} \cup {NotAList}

VmData ==
    {ListResp(q) : q \in BoundedSeq({RawVm(n, 1, 1, 1, "running") : n \in VmNames},
                                    MaxData)} \cup {NotAList}

Probe(kind, data, ipdata, uuid, private_ipv4, name) ==
    [kind |-> kind, data |-> data, ipdata |-> ipdata, uuid |-> uuid,
     private_ipv4 |-> private_ipv4, name |-> name]

\* a behaviour makes one lookup: a lookup reads nothing an earlier one left
LocateNetwork ==
    \E data \in NetData, name \in {"net1"} :
        /\ probe = Empty
        /\ probe' = Probe("network", data, NotAList, None, None, name)
        /\ found' = [raised |-> FALSE, value |-> get_existing_network(data, name)]
        /\ UNCHANGED <<vms, ips, nets, params, pc, loc, calls, outcome, result,
                       failure, run, prev, before>>

LocateFloatingIp ==
    \E data \in IpData, vm_uuid \in {None, UuidOf["vm1"]},
       private_ipv4 \in {None, PrivOf["vm1"]}, name \in {None, "fip1"} :
        /\ probe = Empty
        /\ probe' = Probe("floating_ip", data, NotAList, vm_uuid, private_ipv4, name)
        /\ found' = [raised |-> FALSE,
                     value |-> get_public_ipv4(data, vm_uuid, private_ipv4, name)]
        /\ UNCHANGED <<vms, ips, nets, params, pc, loc, calls, outcome, result,
                       failure, run, prev, before>>

LocateVm ==
    \E data \in VmData, name \in {"vm1"},
       ipdata \in {ListResp(<<>>), ListResp(<<RawIpOf("fip1", "vm1")>>)} :
        /\ probe = Empty
        /\ probe' = Probe("vm", data, ipdata, None, None, name)
        /\ LET g == get_vm(data, None, name, TRUE, ipdata)
           IN  found' = [raised |-> g.fault, value |-> g.vm]
        /\ UNCHANGED <<vms, ips, nets, params, pc, loc, calls, outcome, result,
                       failure, run, prev, before>>

\* the answers to get_public_ip's GET: the lists, and the error bodies
PublicIpData ==
    {ListResp(q) : q \in BoundedSeq(IpEntries, MaxData)}
    \cup {NotAListBody(b) : b \in ErrBodies}

\* private_ipv4 and vm_uuid: one of them is required, and only one is allowed
GetPublicIP ==
    \E data \in PublicIpData,
       c \in {<<PrivOf["vm1"], None>>, <<None, UuidOf["vm1"]>>} :
        /\ probe = Empty
        /\ probe' = Probe("get_public_ip", data, NotAList, c[2], c[1], None)
        /\ found' = get_public_ip(data, c[1], c[2])
        /\ UNCHANGED <<vms, ips, nets, params, pc, loc, calls, outcome, result,
                       failure, run, prev, before>>

InitLocate == vms = <<>> /\ ips = <<>> /\ nets = <<>> /\ Idle

NextLocate == LocateNetwork \/ LocateFloatingIp \/ LocateVm \/ GetPublicIP

SpecLocate == InitLocate /\ [][NextLocate]_vars

-----------------------------------------------------------------------------
(* Vocabulary of the properties *)

Done == pc = "done"

MutCalls == SelectSeq(calls, Mutating)

\* a request without the provider's answer
Shape(c) == [method |-> c.method, path |-> c.path, target |-> c.target,
             body |-> c.body]
Shapes(q) == [i \in 1..Len(q) |-> Shape(q[i])]

IsPrefix(q, r) == Len(q) <= Len(r) /\ \A i \in 1..Len(q) : q[i] = r[i]

AllAccepted == \A i \in 1..Len(calls) : calls[i].ok

\* the provider's lists when the invocation began
VmFound == Exists(before.vms, "name", params.name)
TheVm == before.vms[Min({i \in 1..Len(before.vms) :
                            before.vms[i]["name"] = params.name})]
\* the Locator found the VM: it exists and the lookup returned its record
VmLocated == VmFound /\ Has(loc.current_vm, "uuid")
PrimaryOf(raw) ==
    raw["storage"][Min({j \in 1..Len(raw["storage"]) : raw["storage"][j]["primary"]})]
NetFound == Exists(before.nets, "name", params.network_name)
RequestedVmFound == Exists(before.vms, "name", params.vm_name)
IpNamed == Exists(before.ips, "name", params.name)

InvalidOs == params.os_version \notin os_version_choices[params.os_name]

-----------------------------------------------------------------------------
(* C1: desired=resize on a found, running VM whose disks, vcpu and ram all  *)
(* differ from the request: the mutating requests are, in this order, stop, *)
(* PATCH ram/vcpu, PATCH disk, start.  At every moment the requests made so *)
(* far are a prefix of that sequence, and once the stop was accepted the    *)
(* invocation ends with all four made, whatever the two PATCHes answered.   *)

C1Case ==
    /\ params.module = "vm" /\ params.state = "resize" /\ VmLocated
    /\ TheVm["status"] = "running"
    /\ params.disks # PrimaryOf(TheVm)["size"]
    /\ params.vcpu # TheVm["vcpu"]
    /\ params.ram # TheVm["memory"]

C1Order ==
    <<[method |-> "POST", path |-> "user-resource/vm/stop", target |-> "",
       body |-> [uuid |-> TheVm["uuid"]]],
      [method |-> "PATCH", path |-> "user-resource/vm", target |-> "",
       body |-> [uuid |-> TheVm["uuid"], name |-> params.name,
                 vcpu |-> params.vcpu, ram |-> params.ram]],
      [method |-> "PATCH", path |-> "user-resource/vm/storage", target |-> "",
       body |-> [uuid |-> TheVm["uuid"], disk_uuid |-> PrimaryOf(TheVm)["uuid"],
                 size_gb |-> params.disks]],
      [method |-> "POST", path |-> "user-resource/vm/start", target |-> "",
       body |-> [uuid |-> TheVm["uuid"]]]>>

C1_ResizeCallOrder ==
    C1Case =>
        /\ IsPrefix(Shapes(MutCalls), C1Order)
        /\ Done => /\ Len(MutCalls) >= 1
                   /\ MutCalls[1].ok => Shapes(MutCalls) = C1Order

C1_Witness ==
    /\ C1Case /\ Done /\ Shapes(MutCalls) = C1Order
    /\ ~MutCalls[2].ok /\ MutCalls[3].ok /\ MutCalls[4].ok

-----------------------------------------------------------------------------
(* C2: desired=resize twice in succession with the same disks, vcpu and     *)
(* ram, the first invocation changing something and succeeding: the second  *)
(* reports changed=false and the same disks, vcpu and ram as the first.     *)

C2_ResizeIdempotent ==
    ( /\ params.module = "vm" /\ params.state = "resize" /\ run >= 2 /\ Done
      /\ prev.outcome = "exit" /\ Has(prev.result, "changed")
      /\ prev.result["changed"] )
    => /\ outcome = "exit"
       /\ result["changed"] = FALSE
       /\ result["disks"] = prev.result["disks"]
       /\ result["vcpu"] = prev.result["vcpu"]
       /\ result["ram"] = prev.result["ram"]

-----------------------------------------------------------------------------
(* C3, as stated: desired=present with an os_version outside the list of    *)
(* its os_name fails validation with no request recorded at all.            *)

C3_NoRequestBeforeValidation ==
    (params.module = "vm" /\ params.state = "present" /\ InvalidOs /\ Done)
    => (outcome = "fail" /\ calls = <<>>)

(* C3, amended: such an invocation makes no mutating request; when no VM of *)
(* that name exists and the requested network does, it fails validation     *)
(* after the two lookups (GET VM list, GET network list) and before the     *)
(* create POST.  The standalone create_vm module fails validation with no   *)
(* request at all.                                                          *)

C3_ValidationBeforeCreate ==
    /\ (params.module = "vm" /\ params.state = "present" /\ InvalidOs)
       => /\ MutCalls = <<>>
          /\ (Done /\ ~VmFound /\ NetFound)
             => /\ outcome = "fail"
                /\ failure.msg = "Failed to create the VM."
                /\ failure.kwargs = [error |-> "os_version must be one of the choices"]
                /\ calls = <<GetVms, GetNets>>
    /\ (params.module = "create_vm" /\ InvalidOs /\ Done)
       => (outcome = "fail" /\ calls = <<>>)

C3_Witness ==
    /\ params.module = "vm" /\ params.state = "present" /\ InvalidOs
    /\ Done /\ ~VmFound /\ NetFound /\ outcome = "fail"
    /\ calls = <<GetVms, GetNets>>

-----------------------------------------------------------------------------
(* C4: a missing dependent resource.  Vm desired=present whose network_name *)
(* matches no network, and FloatingIp whose vm_name matches no VM, make no  *)
(* mutating request; the invocation that needs the resource (the VM is to   *)
(* be created; any FloatingIp state) ends in fail_json with the locally     *)
(* written message.                                                         *)

C4_MissingDependent ==
    /\ (params.module = "vm" /\ params.state = "present" /\ ~NetFound)
       => /\ MutCalls = <<>>
          /\ (Done /\ ~VmFound)
             => /\ outcome = "fail"
                /\ failure.msg = "Failed to create the VM."
                /\ failure.kwargs = [error |-> "The selected network is not found."]
    /\ (params.module = "floating_ip" /\ params.vm_name # None /\ ~RequestedVmFound)
       => /\ MutCalls = <<>>
          /\ Done
             => /\ outcome = "fail"
                /\ failure.msg = "Failed to create the floating IP. The VM name is provided, but no VM was found."

C4_Witness ==
    /\ params.module = "vm" /\ params.state = "present" /\ ~NetFound /\ ~VmFound
    /\ before.nets # <<>> /\ ~InvalidOs
    /\ Done /\ outcome = "fail" /\ MutCalls = <<>>

C4_WitnessFloatingIp ==
    /\ params.module = "floating_ip" /\ params.vm_name # None /\ ~RequestedVmFound
    /\ before.vms # <<>>
    /\ Done /\ outcome = "fail" /\ MutCalls = <<>>

-----------------------------------------------------------------------------
(* C5: desired=absent with remove_public_ipv4 on a found VM that has a      *)
(* floating IP assigned: the mutating requests are DELETE of the VM by uuid *)
(* and then DELETE of the floating IP by its address, the second made once  *)
(* the first was accepted; the invocation exits exactly when both were      *)
(* accepted, and then with changed=true.                                    *)

IpOfVm(uuid) ==
    {i \in 1..Len(before.ips) :
        Has(before.ips[i], "assigned_to") /\ before.ips[i]["assigned_to"] = uuid}

C5Case ==
    /\ params.module = "vm" /\ params.state = "absent" /\ params.remove_public_ipv4
    /\ VmLocated /\ IpOfVm(TheVm["uuid"]) # {}

C5Order ==
    <<[method |-> "DELETE", path |-> "user-resource/vm", target |-> "",
       body |-> [uuid |-> TheVm["uuid"]]],
      [method |-> "DELETE", path |-> "network/ip_addresses",
       target |-> before.ips[Min(IpOfVm(TheVm["uuid"]))]["address"],
       body |-> Empty]>>

C5_CascadeDelete ==
    C5Case =>
        /\ IsPrefix(Shapes(MutCalls), C5Order)
        /\ Done => /\ Len(MutCalls) >= 1
                   /\ MutCalls[1].ok => Shapes(MutCalls) = C5Order
                   /\ (outcome = "exit") <=> (Len(MutCalls) = 2 /\ AllAccepted)
                   /\ outcome = "exit" => result["changed"] = TRUE

C5_Witness ==
    /\ C5Case /\ Done /\ outcome = "exit" /\ Shapes(MutCalls) = C5Order
    /\ result["changed"] = TRUE

-----------------------------------------------------------------------------
(* C6: FloatingIp desired=present when no floating IP has that name, with   *)
(* every request accepted: the create POST is made, the assign is made      *)
(* exactly when a VM was requested, and the invocation exits with           *)
(* changed=true, with and without a requested VM.                           *)

IsCreateIp(c) == c.method = "POST" /\ c.path = "network/ip_addresses"
IsAssign(c) == c.method = "POST" /\ c.path = "network/ip_addresses/assign"

C6_CreateIsAChange ==
    ( /\ params.module = "floating_ip" /\ params.state = "present" /\ ~IpNamed
      /\ (params.vm_name = None \/ RequestedVmFound)
      /\ Done /\ AllAccepted )
    => /\ outcome = "exit"
       /\ result["changed"] = TRUE
       /\ \E i \in 1..Len(calls) : IsCreateIp(calls[i])
       /\ (\E i \in 1..Len(calls) : IsAssign(calls[i])) <=> params.vm_name # None

-----------------------------------------------------------------------------
(* C7: a lookup that matches nothing, on a collection that has no match, is *)
(* empty, or is not a list, returns the empty mapping: it neither raises    *)
(* nor returns None.                                                        *)

Matches(e) ==
    CASE probe.kind = "network" -> e["name"] = probe.name
      [] probe.kind = "vm" -> e["uuid"] = probe.uuid \/ e["name"] = probe.name
      [] probe.kind = "floating_ip" ->
            \/ Has(e, "assigned_to_private_ip")
                 /\ e["assigned_to_private_ip"] = probe.private_ipv4
            \/ Has(e, "assigned_to") /\ e["assigned_to"] = probe.uuid
            \/ Has(e, "name") /\ e["name"] = probe.name

NoMatch ==
    \/ ~probe.data.is_list
    \/ \A i \in 1..Len(probe.data.items) : ~Matches(probe.data.items[i])

C7_EmptySentinel ==
    (probe # Empty /\ NoMatch) => (~found.raised /\ found.value = Empty)

-----------------------------------------------------------------------------
(* C8: an invocation of Vm.main for a name the Locator does not find never  *)
(* ends in an unhandled fault, whatever the desired state (active and       *)
(* inactive included): it creates, or it ends as a no-op or a failure.      *)

C8_NotFoundIsNormal ==
    (Done /\ params.module = "vm" /\ ~VmFound) => outcome # "fault"

-----------------------------------------------------------------------------
(* C9: every fail_json carries a msg that is a string and an error key.     *)

C9_FailureShape ==
    outcome = "fail" => (failure.msg_type = "str" /\ Has(failure.kwargs, "error"))

-----------------------------------------------------------------------------
(* C10: in a resize, a rejected PATCH does not stop the sibling PATCH from  *)
(* being made when its values differ, and the failure reported at the end   *)
(* carries the payload of every PATCH that was rejected.                    *)

IsPatchRamVcpu(c) == c.method = "PATCH" /\ c.path = "user-resource/vm"
IsPatchDisk(c) == c.method = "PATCH" /\ c.path = "user-resource/vm/storage"
Rejected(P(_)) == \E i \in 1..Len(calls) : P(calls[i]) /\ ~calls[i].ok
Made(P(_)) == \E i \in 1..Len(calls) : P(calls[i])
Carries(key) ==
    \/ failure.msg_type = "dict" /\ Has(failure.msg, key)
    \/ Has(failure.kwargs, key)

C10_BothErrorsReported ==
    ( /\ params.module = "vm" /\ params.state = "resize" /\ Done
      /\ (Rejected(IsPatchRamVcpu) \/ Rejected(IsPatchDisk)) )
    => /\ outcome = "fail"
       /\ (params.vcpu # TheVm["vcpu"] \/ params.ram # TheVm["memory"])
              => Made(IsPatchRamVcpu)
       /\ params.disks # PrimaryOf(TheVm)["size"] => Made(IsPatchDisk)
       /\ Rejected(IsPatchRamVcpu) => Carries("error_ram_vcpu")
       /\ Rejected(IsPatchDisk) => Carries("error_disks")

-----------------------------------------------------------------------------
(* C11, as stated: at the end of a resize of a found VM, the ram/vcpu PATCH *)
(* was made exactly when the requested vcpu or ram differs from the VM's,   *)
(* the disk PATCH exactly when the requested disks differs from the primary *)
(* disk's size, and when none differs no mutating request was made and the  *)
(* result has changed=false.                                                *)

C11Case == params.module = "vm" /\ params.state = "resize" /\ VmLocated
RamVcpuDiffers ==
    params.vcpu # TheVm["vcpu"] \/ params.ram # TheVm["memory"]
DisksDiffer == params.disks # PrimaryOf(TheVm)["size"]
IsStop(c) == c.method = "POST" /\ c.path = "user-resource/vm/stop"
IsStart(c) == c.method = "POST" /\ c.path = "user-resource/vm/start"
StopAccepted == \E i \in 1..Len(calls) : IsStop(calls[i]) /\ calls[i].ok
Count(P(_)) == Cardinality({i \in 1..Len(calls) : P(calls[i])})

C11_PatchIffDiffers ==
    (C11Case /\ Done) =>
        /\ Made(IsPatchRamVcpu) <=> RamVcpuDiffers
        /\ Made(IsPatchDisk) <=> DisksDiffer
        /\ (~RamVcpuDiffers /\ ~DisksDiffer)
           => (MutCalls = <<>> /\ outcome = "exit" /\ result["changed"] = FALSE)

(* C11, amended: a PATCH is made only when its values differ, at most once, *)
(* and it is made whenever they differ and the power-off request before it  *)
(* was accepted (a rejected power-off ends the invocation before any        *)
(* PATCH); when none of the three differs no mutating request is made and   *)
(* the invocation exits with changed=false.                                 *)

C11_PatchWhenDiffersAndStopped ==
    C11Case =>
        /\ Made(IsPatchRamVcpu) => RamVcpuDiffers
        /\ Made(IsPatchDisk) => DisksDiffer
        /\ Count(IsPatchRamVcpu) <= 1 /\ Count(IsPatchDisk) <= 1
        /\ (Done /\ StopAccepted)
           => /\ RamVcpuDiffers => Made(IsPatchRamVcpu)
              /\ DisksDiffer => Made(IsPatchDisk)
        /\ (Done /\ ~StopAccepted)
           => (~Made(IsPatchRamVcpu) /\ ~Made(IsPatchDisk))
        /\ (~RamVcpuDiffers /\ ~DisksDiffer)
           => /\ MutCalls = <<>>
              /\ Done => (outcome = "exit" /\ result["changed"] = FALSE)

C11_Witness ==
    /\ C11Case /\ Done /\ StopAccepted
    /\ params.ram # TheVm["memory"] /\ params.vcpu = TheVm["vcpu"] /\ ~DisksDiffer
    /\ Count(IsPatchRamVcpu) = 1 /\ ~Made(IsPatchDisk)

C11_WitnessNoChange ==
    /\ C11Case /\ Done /\ ~RamVcpuDiffers /\ ~DisksDiffer
    /\ MutCalls = <<>> /\ outcome = "exit" /\ result["changed"] = FALSE

-----------------------------------------------------------------------------
(* C12: in a resize, no start request follows a PATCH that was rejected:    *)
(* the VM powered off for the resize stays off.                             *)

C12_NoStartAfterFailedPatch ==
    (params.module = "vm" /\ params.state = "resize") =>
        \A i, j \in 1..Len(calls) :
            ( /\ i < j /\ ~calls[i].ok
              /\ (IsPatchRamVcpu(calls[i]) \/ IsPatchDisk(calls[i])) )
            => ~IsStart(calls[j])

-----------------------------------------------------------------------------
(* C13: every floating-IP record the locator hands to FloatingIp.main, and  *)
(* every record FloatingIp.main builds or returns (found, created,          *)
(* assigned, unassigned), has assigned_to_vm_uuid and private_ipv4_address  *)
(* together or not at all, and one is the empty string exactly when the     *)
(* other is.                                                                *)

FipConsistent(r) ==
    /\ Has(r, "assigned_to_vm_uuid") <=> Has(r, "private_ipv4_address")
    /\ Has(r, "assigned_to_vm_uuid")
       => (r["assigned_to_vm_uuid"] = "" <=> r["private_ipv4_address"] = "")

C13_AssociationFieldsAgree ==
    params.module = "floating_ip" =>
        /\ FipConsistent(loc.floating_ip)
        /\ FipConsistent(loc.result)
        /\ outcome = "exit" => FipConsistent(result)

C13_Witness ==
    /\ params.module = "floating_ip" /\ params.state = "unassign"
    /\ Done /\ outcome = "exit" /\ Len(MutCalls) = 1
    /\ loc.floating_ip["assigned_to_vm_uuid"] = UuidOf["vm1"]
    /\ result["assigned_to_vm_uuid"] = "" /\ result["private_ipv4_address"] = ""

C13_WitnessAssigned ==
    /\ params.module = "floating_ip" /\ params.state = "present"
    /\ Done /\ outcome = "exit" /\ Len(MutCalls) = 1
    /\ result["assigned_to_vm_uuid"] = UuidOf["vm1"]
    /\ result["private_ipv4_address"] = PrivOf["vm1"]

-----------------------------------------------------------------------------
(* C14: Vm desired=present when the lookup returned a VM of that name makes *)
(* no mutating request and exits with the record observed at the provider   *)
(* and changed=false, whatever disks, vcpu, ram, os and network were asked. *)

C14Case == params.module = "vm" /\ params.state = "present" /\ VmLocated

C14_PresentFoundIsNoOp ==
    C14Case =>
        /\ MutCalls = <<>>
        /\ Done
           => /\ outcome = "exit"
              /\ result["changed"] = FALSE
              /\ result["uuid"] = TheVm["uuid"]
              /\ result["name"] = TheVm["name"]
              /\ result["vcpu"] = TheVm["vcpu"]
              /\ result["ram"] = TheVm["memory"]
              /\ result["disks"] = PrimaryOf(TheVm)["size"]
              /\ result["status"] = TheVm["status"]

C14_Witness ==
    /\ C14Case /\ Done /\ outcome = "exit" /\ MutCalls = <<>>
    /\ params.disks # result["disks"] /\ params.vcpu # result["vcpu"]
    /\ params.ram # result["ram"] /\ InvalidOs /\ ~NetFound
    /\ result["changed"] = FALSE

-----------------------------------------------------------------------------
(* C15, as stated: Network.main twice in succession with the same name and  *)
(* desired state, the first invocation succeeding: the second makes no      *)
(* mutating request and exits with changed=false, and for desired=present   *)
(* with the same uuid, name, subnet and is_default as the first.            *)

NameCount(list) ==
    Cardinality({i \in 1..Len(list) : list[i]["name"] = params.name})
NetFields(r) ==
    [uuid |-> r["uuid"], name |-> r["name"], subnet |-> r["subnet"],
     is_default |-> r["is_default"]]
IsCreateNet(c) == c.method = "POST" /\ c.path = "network/network"
IsDeleteNet(c) == c.method = "DELETE" /\ c.path = "network/network"
Second == params.module = "network" /\ run >= 2 /\ prev.outcome = "exit"

C15_NetworkIdempotent ==
    (Second /\ Done) =>
        /\ outcome = "exit" /\ result["changed"] = FALSE /\ MutCalls = <<>>
        /\ params.state = "present" => NetFields(result) = NetFields(prev.result)

(* C15, amended: for desired=present the second invocation makes no         *)
(* mutating request and exits with changed=false and the same uuid, name,   *)
(* subnet and is_default; for desired=absent it does so when at most one    *)
(* network had that name before the first invocation.  When several had it, *)
(* the second invocation deletes the next one and reports changed=true.     *)

C15_NetworkIdempotentUniqueName ==
    Second =>
        /\ params.state = "present"
           => /\ MutCalls = <<>>
              /\ Done => /\ outcome = "exit" /\ result["changed"] = FALSE
                         /\ NetFields(result) = NetFields(prev.result)
        /\ (params.state = "absent" /\ NameCount(prev.nets) <= 1)
           => /\ MutCalls = <<>>
              /\ Done => (outcome = "exit" /\ result["changed"] = FALSE)
        /\ (params.state = "absent" /\ NameCount(prev.nets) > 1
              /\ Done /\ AllAccepted)
           => /\ Len(MutCalls) = 1 /\ IsDeleteNet(MutCalls[1])
              /\ outcome = "exit" /\ result["changed"] = TRUE

C15_Witness ==
    /\ Second /\ Done /\ params.state = "present"
    /\ \E i \in 1..Len(prev.calls) : IsCreateNet(prev.calls[i])
    /\ prev.result["changed"] = TRUE
    /\ MutCalls = <<>> /\ outcome = "exit" /\ result["changed"] = FALSE
    /\ NetFields(result) = NetFields(prev.result)

C15_WitnessAbsent ==
    /\ Second /\ Done /\ params.state = "absent"
    /\ NameCount(prev.nets) = 1
    /\ \E i \in 1..Len(prev.calls) : IsDeleteNet(prev.calls[i])
    /\ prev.result["changed"] = TRUE
    /\ MutCalls = <<>> /\ outcome = "exit" /\ result["changed"] = FALSE

-----------------------------------------------------------------------------
(* C16: once Network.main has created a network and exited, a lookup by     *)
(* that name on the provider's list returns the uuid, name, subnet and      *)
(* is_default that the create returned.                                     *)

C16Case ==
    /\ params.module = "network" /\ params.state = "present"
    /\ Done /\ outcome = "exit" /\ Made(IsCreateNet)

C16_NetworkRoundTrip ==
    C16Case =>
        /\ Has(get_existing_network_by_name(ListResp(nets), params.name), "uuid")
        /\ NetFields(get_existing_network_by_name(ListResp(nets), params.name))
             = NetFields(result)

C16_Witness ==
    /\ C16Case /\ before.nets # <<>> /\ result["is_default"] = FALSE
    /\ NetFields(get_existing_network_by_name(ListResp(nets), params.name))
         = NetFields(result)

-----------------------------------------------------------------------------
(* C17: Network.main desired=absent.  Found: the only mutating request is   *)
(* one DELETE addressed by the uuid of the first network of that name;      *)
(* accepted (status 200), the invocation exits with changed=true; rejected, *)
(* it ends in fail_json with the generic message and no result.  Not found: *)
(* no mutating request, exit with changed=false.                            *)

NetNamed == Exists(before.nets, "name", params.name)
TheNet == before.nets[Min({i \in 1..Len(before.nets) :
                              before.nets[i]["name"] = params.name})]
C17Case == params.module = "network" /\ params.state = "absent"
C17Order ==
    <<[method |-> "DELETE", path |-> "network/network",
       target |-> TheNet["uuid"], body |-> Empty]>>

C17_NetworkAbsent ==
    C17Case =>
        /\ NetNamed
           => /\ IsPrefix(Shapes(MutCalls), C17Order)
              /\ Done
                 => /\ Shapes(MutCalls) = C17Order
                    /\ MutCalls[1].ok
                       => (outcome = "exit" /\ result["changed"] = TRUE)
                    /\ ~MutCalls[1].ok
                       => /\ outcome = "fail" /\ result = Empty
                          /\ failure.msg_type = "str"
                          /\ failure.msg = "Delete network fail"
                          /\ failure.kwargs =
                               [error |-> "Something is wrong with the request."]
        /\ ~NetNamed
           => /\ MutCalls = <<>>
              /\ Done => (outcome = "exit" /\ result["changed"] = FALSE)

C17_Witness ==
    /\ C17Case /\ NetNamed /\ Done /\ Shapes(MutCalls) = C17Order
    /\ MutCalls[1].ok /\ outcome = "exit" /\ result["changed"] = TRUE
    /\ before.nets[1]["name"] # params.name

C17_WitnessRejected ==
    /\ C17Case /\ NetNamed /\ Done /\ Shapes(MutCalls) = C17Order
    /\ ~MutCalls[1].ok /\ outcome = "fail"

C17_WitnessNotFound ==
    /\ C17Case /\ ~NetNamed /\ before.nets # <<>> /\ Done
    /\ MutCalls = <<>> /\ outcome = "exit" /\ result["changed"] = FALSE

-----------------------------------------------------------------------------
(* C18: FloatingIp.main desired=present when the lookup by name returned a  *)
(* floating IP.  A VM was requested and the record's assigned_to_vm_uuid is *)
(* the empty string (unassigned): the only mutating request is one assign   *)
(* of that address to the VM, and once accepted the invocation exits with   *)
(* changed=true.  The record is assigned to the requested VM, or no VM was  *)
(* requested: no mutating request, exit with changed=false.                 *)

\* what the lookup by name returns on the list the invocation began with
TheFip == get_public_ipv4(ListResp(before.ips), None, None, params.name)
FipFound == Has(TheFip, "uuid")
TheReqVm == before.vms[Min({i \in 1..Len(before.vms) :
                               before.vms[i]["name"] = params.vm_name})]
VmRequested == params.vm_name # None /\ RequestedVmFound
VmSettled == params.vm_name = None \/ RequestedVmFound

C18Case == params.module = "floating_ip" /\ params.state = "present" /\ FipFound
C18Order ==
    <<[method |-> "POST", path |-> "network/ip_addresses/assign",
       target |-> TheFip["public_ipv4"],
       body |-> [vm_uuid |-> TheReqVm["uuid"]]]>>

C18_WitnessAssigned ==
    /\ C18Case /\ VmRequested
    /\ TheFip["assigned_to_vm_uuid"] = TheReqVm["uuid"]
    /\ Done /\ MutCalls = <<>> /\ outcome = "exit" /\ result["changed"] = FALSE

C18_WitnessNoVm ==
    /\ C18Case /\ params.vm_name = None
    /\ Done /\ MutCalls = <<>> /\ outcome = "exit" /\ result["changed"] = FALSE

-----------------------------------------------------------------------------
(* C19: FloatingIp.main desired=unassign (any requested VM exists).  Found: *)
(* an exit has both association fields cleared and changed true exactly     *)
(* when the record was assigned before the call.  Not found: no mutating    *)
(* request, and the invocation exits with changed=false.                    *)

C19Case ==
    params.module = "floating_ip" /\ params.state = "unassign" /\ VmSettled

C19_Unassign ==
    C19Case =>
        /\ (FipFound /\ Done /\ AllAccepted)
           => /\ outcome = "exit"
              /\ result["assigned_to_vm_uuid"] = ""
              /\ result["private_ipv4_address"] = ""
              /\ result["changed"] = (TheFip["assigned_to_vm_uuid"] # "")
        /\ ~FipFound
           => /\ MutCalls = <<>>
              /\ Done => (outcome = "exit" /\ result["changed"] = FALSE)

-----------------------------------------------------------------------------
(* C20: FloatingIp.main desired=absent (any requested VM exists).  Found:   *)
(* the only mutating request is one DELETE addressed by the record's public *)
(* IPv4 address, and once accepted the invocation exits with changed=true.  *)
(* Not found: no mutating request, and the invocation exits with            *)
(* changed=false.                                                           *)

C20Case ==
    params.module = "floating_ip" /\ params.state = "absent" /\ VmSettled
C20Order ==
    <<[method |-> "DELETE", path |-> "network/ip_addresses",
       target |-> TheFip["public_ipv4"], body |-> Empty]>>

C20_Absent ==
    C20Case =>
        /\ FipFound
           => /\ IsPrefix(Shapes(MutCalls), C20Order)
              /\ Done
                 => /\ Shapes(MutCalls) = C20Order
                    /\ MutCalls[1].ok
                       => (outcome = "exit" /\ result["changed"] = TRUE)
        /\ ~FipFound
           => /\ MutCalls = <<>>
              /\ Done => (outcome = "exit" /\ result["changed"] = FALSE)

-----------------------------------------------------------------------------
(* C21: a DELETE of a floating IP that was assigned to a VM when the        *)
(* invocation began is made only after an accepted unassign of that         *)
(* address in the same invocation.                                          *)

IsDeleteIp(c) == c.method = "DELETE" /\ c.path = "network/ip_addresses"
IsUnassign(c) == c.method = "POST" /\ c.path = "network/ip_addresses/unassign"
AssignedAtStart(address) ==
    \E i \in 1..Len(before.ips) :
        /\ before.ips[i]["address"] = address
        /\ Has(before.ips[i], "assigned_to")
        /\ before.ips[i]["assigned_to"] \notin {None, ""}

C21_UnassignBeforeDelete ==
    \A j \in 1..Len(calls) :
        (IsDeleteIp(calls[j]) /\ AssignedAtStart(calls[j].target))
        => \E i \in 1..(j - 1) :
               IsUnassign(calls[i]) /\ calls[i].target = calls[j].target
                   /\ calls[i].ok

-----------------------------------------------------------------------------
(* C22: in FloatingIp.main, a rejected assign or unassign ends the          *)
(* invocation in fail_json with that sub-operation's msg and the provider's *)
(* body as error, and no result; an accepted one ends it in exit_json with  *)
(* vm_name, assigned_to_vm_uuid and private_ipv4_address merged into the    *)
(* result: the requested VM's after an assign, empty strings after an       *)
(* unassign.                                                                *)

LastMut == MutCalls[Len(MutCalls)]
C22Case ==
    /\ params.module = "floating_ip" /\ Done /\ MutCalls # <<>>
    /\ (IsAssign(LastMut) \/ IsUnassign(LastMut))

C22_SubOperationOutcome ==
    C22Case =>
        /\ ~LastMut.ok
           => /\ outcome = "fail" /\ result = Empty
              /\ failure.msg_type = "str"
              /\ failure.msg =
                   IF IsAssign(LastMut)
                   THEN "Failed to assign the floating IP into the selected VM."
                   ELSE "Failed to unassign the floating IP from the selected VM."
              /\ DOMAIN failure.kwargs = {"error"}
              /\ failure.kwargs["error"] \in ErrBodies
        /\ (LastMut.ok /\ IsAssign(LastMut))
           => /\ outcome = "exit"
              /\ result["vm_name"] = params.vm_name
              /\ result["assigned_to_vm_uuid"] = TheReqVm["uuid"]
              /\ result["private_ipv4_address"] = TheReqVm["private_ipv4"]
        /\ (LastMut.ok /\ IsUnassign(LastMut))
           => /\ outcome = "exit"
              /\ result["vm_name"] = ""
              /\ result["assigned_to_vm_uuid"] = ""
              /\ result["private_ipv4_address"] = ""

C22_Witness ==
    /\ C22Case /\ IsAssign(LastMut) /\ ~LastMut.ok /\ outcome = "fail"
    /\ failure.kwargs["error"] \in ErrBodies

C22_WitnessMerged ==
    /\ C22Case /\ IsAssign(LastMut) /\ LastMut.ok /\ outcome = "exit"
    /\ Len(MutCalls) = 2 /\ result["assigned_to_vm_uuid"] = TheReqVm["uuid"]

C22_WitnessUnassignRejected ==
    /\ C22Case /\ IsUnassign(LastMut) /\ ~LastMut.ok /\ outcome = "fail"

-----------------------------------------------------------------------------
(* C23: Vm.main desired=active (inactive) when the lookup returned the VM:  *)
(* the only mutating request is one start (stop) for its uuid, whatever its *)
(* status; accepted, the invocation exits with changed = (the status the    *)
(* provider now reports differs from the status observed before); rejected, *)
(* it ends in fail_json.                                                    *)

C23Case ==
    /\ params.module = "vm" /\ params.state \in {"active", "inactive"}
    /\ VmLocated
C23Order ==
    <<[method |-> "POST",
       path |-> IF params.state = "active" THEN "user-resource/vm/start"
                ELSE "user-resource/vm/stop",
       target |-> "", body |-> [uuid |-> TheVm["uuid"]]]>>

C23_PowerToggle ==
    C23Case =>
        /\ IsPrefix(Shapes(MutCalls), C23Order)
        /\ Done
           => /\ Shapes(MutCalls) = C23Order
              /\ MutCalls[1].ok
                 => /\ outcome = "exit"
                    /\ result["changed"] =
                         (ProvGet(vms, TheVm["uuid"])["status"] # TheVm["status"])
              /\ ~MutCalls[1].ok
                 => /\ outcome = "fail" /\ result = Empty
                    /\ Has(failure.kwargs, "error")

C23_Witness ==
    /\ C23Case /\ params.state = "active" /\ TheVm["status"] = "running"
    /\ Done /\ Shapes(MutCalls) = C23Order /\ MutCalls[1].ok
    /\ outcome = "exit" /\ result["changed"] = FALSE

C23_WitnessChanged ==
    /\ C23Case /\ params.state = "inactive" /\ TheVm["status"] = "running"
    /\ Done /\ Shapes(MutCalls) = C23Order /\ MutCalls[1].ok
    /\ outcome = "exit" /\ result["changed"] = TRUE

-----------------------------------------------------------------------------
(* C24: Vm.main desired=absent.  No VM of that name: no mutating request.   *)
(* The VM DELETE rejected: the invocation ends in fail_json with that one   *)
(* request made, no floating-IP DELETE, even with remove_public_ipv4.       *)
(* remove_public_ipv4 false: the VM DELETE is the only mutating request.    *)

IsDeleteVm(c) == c.method = "DELETE" /\ c.path = "user-resource/vm"
C24Case == params.module = "vm" /\ params.state = "absent"

C24_AbsentAborts ==
    C24Case =>
        /\ ~VmFound => MutCalls = <<>>
        /\ (MutCalls # <<>> /\ ~MutCalls[1].ok)
           => /\ Len(MutCalls) = 1 /\ IsDeleteVm(MutCalls[1])
              /\ Done /\ outcome = "fail"
        /\ ~params.remove_public_ipv4
           => /\ Len(MutCalls) <= 1
              /\ \A i \in 1..Len(MutCalls) : IsDeleteVm(MutCalls[i])
              /\ (Done /\ VmLocated) => Len(MutCalls) = 1

C24_Witness ==
    /\ C24Case /\ params.remove_public_ipv4 /\ VmLocated /\ Done
    /\ Len(MutCalls) = 1 /\ ~MutCalls[1].ok /\ outcome = "fail"

C24_WitnessNoCascade ==
    /\ C24Case /\ ~params.remove_public_ipv4 /\ VmLocated /\ Done
    /\ IpOfVm(TheVm["uuid"]) # {}
    /\ Len(MutCalls) = 1 /\ MutCalls[1].ok /\ outcome = "exit"

C24_WitnessNotFound ==
    /\ C24Case /\ ~VmFound /\ before.vms # <<>> /\ Done /\ MutCalls = <<>>

-----------------------------------------------------------------------------
(* C25: every exit_json of a reconciler (Vm, FloatingIp, Network,           *)
(* BlockStorage) hands over a record with a boolean changed, the no-op      *)
(* exits for a resource that was not found included.                        *)

Reconciler == params.module \in {"vm", "floating_ip", "network", "block_storage"}

C25_ChangedAlwaysReported ==
    (Reconciler /\ outcome = "exit")
    => (Has(result, "changed") /\ result["changed"] \in BOOLEAN)

-----------------------------------------------------------------------------
(* C27: BlockStorage with desired absent, for a VM that exists, ends in one *)
(* of these ways: it reports changed = TRUE after a detach (DELETE on the   *)
(* VM storage endpoint, carrying the VM uuid and the disk uuid) that was    *)
(* accepted and then a destroy (DELETE of the disk by its uuid) that was    *)
(* accepted; or it fails after a rejected detach with no destroy issued,    *)
(* after an accepted detach and a rejected destroy, or with no request at   *)
(* all when the VM has no disk of that name.                                *)

IsDetach(c) ==
    /\ c.method = "DELETE" /\ c.path = StoragePath
    /\ Has(c.body, "uuid") /\ Has(c.body, "storage_uuid")
    /\ c.body["uuid"] = UuidOf[params.vm_name]
IsDestroy(c) == c.method = "DELETE" /\ c.path = "storage/disks"

C27Case ==
    /\ params.module = "block_storage" /\ params.state = "absent"
    /\ RequestedVmFound /\ Done

C27_DetachThenDestroy ==
    C27Case =>
        \/ /\ outcome = "exit" /\ result = [changed |-> TRUE]
           /\ Len(MutCalls) = 2
           /\ IsDetach(MutCalls[1]) /\ MutCalls[1].ok
           /\ IsDestroy(MutCalls[2]) /\ MutCalls[2].ok
           /\ MutCalls[2].target = MutCalls[1].body["storage_uuid"]
        \/ /\ outcome = "fail"
           /\ \/ MutCalls = <<>>
              \/ Len(MutCalls) = 1 /\ IsDetach(MutCalls[1]) /\ ~MutCalls[1].ok
              \/ /\ Len(MutCalls) = 2
                 /\ IsDetach(MutCalls[1]) /\ MutCalls[1].ok
                 /\ IsDestroy(MutCalls[2]) /\ ~MutCalls[2].ok

-----------------------------------------------------------------------------
(* C28: the second of two BlockStorage invocations in succession with       *)
(* desired present and the same vm_name and size, for a VM that exists,     *)
(* reports changed = FALSE and sends no attach request.                     *)

IsAttach(c) == c.method = "POST" /\ c.path = StoragePath

C28Case ==
    /\ params.module = "block_storage" /\ params.state = "present"
    /\ RequestedVmFound /\ run = 2 /\ Done

C28_BlockStorageIdempotent ==
    C28Case =>
        /\ outcome = "exit"
        /\ Has(result, "changed") /\ result["changed"] = FALSE
        /\ Count(IsAttach) = 0

-----------------------------------------------------------------------------
(* C29: when the answer to get_network's GET is not a list, or is an empty  *)
(* list, the invocation ends in fail_json with msg 'Get network fail' and   *)
(* error set to the provider's body; it does not end in exit_json.          *)

Answer == loc.data

C29Case ==
    /\ params.module = "get_network" /\ Done
    /\ (~Answer.is_list \/ Len(Answer.items) = 0)

C29_FailsHard ==
    C29Case =>
        /\ outcome = "fail"
        /\ failure.msg_type = "str" /\ failure.msg = "Get network fail"
        /\ failure.kwargs =
             [error |-> IF Answer.is_list THEN <<>> ELSE Answer.body]

\* the answer is not a list: the error is the provider's body
C29_Witness ==
    /\ C29Case /\ ~Answer.is_list /\ Answer.body \in ErrBodies
    /\ before.nets # <<>>
    /\ outcome = "fail" /\ failure.kwargs = [error |-> Answer.body]

\* the answer is an empty list: the error is that list
C29_WitnessEmpty ==
    /\ C29Case /\ Answer.is_list /\ before.nets = <<>>
    /\ outcome = "fail" /\ failure.kwargs = [error |-> <<>>]

\* the cases the claim leaves out: a list with a default network ends in
\* exit_json, a list without one in neither exit_json nor fail_json
C29_WitnessDefault ==
    /\ params.module = "get_network" /\ Done /\ Answer.is_list
    /\ Len(Answer.items) = 2 /\ outcome = "exit"
    /\ result["uuid"] = Answer.items[1]["uuid"]

C29_WitnessNoDefault ==
    /\ params.module = "get_network" /\ Done /\ Answer.is_list
    /\ Len(Answer.items) = 1 /\ outcome = "return"

-----------------------------------------------------------------------------
(* C31: when a resize that made at least one mutating request, all of them  *)
(* accepted, ends in exit_json, the record's vcpu, ram and disks are the    *)
(* requested ones, which are the ones the provider now holds.               *)

C31Case ==
    /\ C11Case /\ Done /\ outcome = "exit"
    /\ MutCalls # <<>> /\ AllAccepted

C31_ResultIsRequested ==
    C31Case =>
        /\ result["vcpu"] = params.vcpu
        /\ result["ram"] = params.ram
        /\ result["disks"] = params.disks
        /\ result["vcpu"] = ProvGet(vms, result["uuid"])["vcpu"]
        /\ result["ram"] = ProvGet(vms, result["uuid"])["memory"]
        /\ result["disks"] = PrimaryOf(ProvGet(vms, result["uuid"]))["size"]

-----------------------------------------------------------------------------
(* C32: desired absent with remove_public_ipv4 on a VM that was located and *)
(* whose record has public_ipv4 = "" makes no floating-IP delete request,   *)
(* and once the VM delete was accepted the invocation ends in exit_json     *)
(* with changed = TRUE.                                                     *)

C32Case ==
    /\ C24Case /\ params.remove_public_ipv4
    /\ VmLocated /\ loc.current_vm["public_ipv4"] = ""

C32_NoDeleteOfEmptyAddress ==
    C32Case =>
        /\ Count(IsDeleteIp) = 0
        /\ (Done /\ MutCalls # <<>> /\ MutCalls[1].ok)
           => (outcome = "exit" /\ result["changed"] = TRUE)

-----------------------------------------------------------------------------
(* C33: in every record that FloatingIp hands to exit_json for desired      *)
(* present, a vm_name that is not empty names the VM whose uuid is the      *)
(* record's assigned_to_vm_uuid; stated for the case the claim singles out, *)
(* a floating IP found assigned to some VM when the invocation began.       *)

VmUuids == {UuidOf[n] : n \in VmNames}

C33Case ==
    /\ params.module = "floating_ip" /\ params.state = "present"
    /\ FipFound /\ TheFip["assigned_to_vm_uuid"] \in VmUuids
    /\ Done /\ outcome = "exit"

C33_VmNameAgreesWithUuid ==
    C33Case =>
        /\ Has(result, "vm_name") /\ Has(result, "assigned_to_vm_uuid")
        /\ result["vm_name"] # ""
           => /\ result["vm_name"] \in VmNames
              /\ result["assigned_to_vm_uuid"] = UuidOf[result["vm_name"]]

-----------------------------------------------------------------------------
(* C34: every get_network invocation ends in exit_json or in fail_json: in  *)
(* exit_json with the uuid, name and subnet of the first network flagged    *)
(* is_default, and in fail_json when the answer is a non-empty list in      *)
(* which no network is flagged.                                             *)

Defaults == {i \in 1..Len(Answer.items) : Answer.items[i]["is_default"]}

C34Case == params.module = "get_network" /\ Done

C34_OneOutcome ==
    C34Case =>
        /\ outcome \in {"exit", "fail"}
        /\ outcome = "exit"
           => /\ Answer.is_list /\ Defaults # {}
              /\ result = [uuid |-> Answer.items[Min(Defaults)]["uuid"],
                           name |-> Answer.items[Min(Defaults)]["name"],
                           subnet |-> Answer.items[Min(Defaults)]["subnet"]]
        /\ (Answer.is_list /\ Len(Answer.items) > 0 /\ Defaults = {})
           => outcome = "fail"

-----------------------------------------------------------------------------
(* C36, as stated: a resize that finds a difference ends with a start       *)
(* request as its last mutating request.                                    *)

C36Case == C11Case /\ Done /\ (RamVcpuDiffers \/ DisksDiffer)

C36_StartAlwaysLast ==
    C36Case => (MutCalls # <<>> /\ IsStart(LastMut))

(* C36, amended: a resize that finds a difference and whose power-off       *)
(* request was accepted ends with a start request as its last mutating      *)
(* request, the only start it makes, whether the VM was running or stopped  *)
(* before; when the invocation then ends in exit_json the VM is running.    *)
(* A rejected power-off is the last mutating request of its invocation.     *)

C36_StartLastAfterStop ==
    C36Case =>
        /\ MutCalls # <<>>
        /\ StopAccepted
           => /\ IsStart(LastMut) /\ Count(IsStart) = 1
              /\ outcome = "exit"
                 => ProvGet(vms, TheVm["uuid"])["status"] = "running"
        /\ ~StopAccepted
           => /\ Len(MutCalls) = 1 /\ IsStop(LastMut) /\ ~LastMut.ok
              /\ outcome = "fail"

\* a VM that was stopped is running after a resize that succeeded
C36_Witness ==
    /\ C36Case /\ TheVm["status"] = "stopped"
    /\ StopAccepted /\ IsStart(LastMut) /\ LastMut.ok /\ outcome = "exit"
    /\ ProvGet(vms, TheVm["uuid"])["status"] = "running"

\* the start is sent after a PATCH that was rejected, too
C36_WitnessAfterRejectedPatch ==
    /\ C36Case /\ TheVm["status"] = "running" /\ Len(MutCalls) >= 3
    /\ ~MutCalls[2].ok /\ IsStart(LastMut) /\ outcome = "fail"

-----------------------------------------------------------------------------
(* C37: when the provider rejects the power-off request that a resize makes *)
(* first, the invocation ends there in fail_json: the rejected stop is its  *)
(* only mutating request, no PATCH and no start is made, and the provider's *)
(* VMs are as they were.                                                    *)

StopRejected == \E i \in 1..Len(calls) : IsStop(calls[i]) /\ ~calls[i].ok

C37Case == params.module = "vm" /\ params.state = "resize" /\ StopRejected

C37_RejectedStopAborts ==
    C37Case =>
        /\ Done /\ outcome = "fail"
        /\ failure.msg_type = "str" /\ failure.msg = "Failed to stop the VM."
        /\ Has(failure.kwargs, "error") /\ failure.kwargs["error"] \in ErrBodies
        /\ Len(MutCalls) = 1
        /\ Count(IsPatchRamVcpu) = 0 /\ Count(IsPatchDisk) = 0
        /\ Count(IsStart) = 0
        /\ vms = before.vms

C37_Witness ==
    /\ C37Case /\ VmLocated /\ RamVcpuDiffers /\ DisksDiffer
    /\ Done /\ outcome = "fail" /\ Len(MutCalls) = 1

-----------------------------------------------------------------------------
(* C38: after a FloatingIp invocation for desired present with a VM that    *)
(* created the floating IP and whose assign was rejected, the floating IP   *)
(* is still listed, and the next invocation with the same desired state     *)
(* makes no create request: it makes the assign request and nothing else    *)
(* and, when that is accepted, exits with changed = TRUE and the floating   *)
(* IP assigned to the requested VM.                                         *)

PrevMut == SelectSeq(prev.calls, Mutating)

C38Case ==
    /\ params.module = "floating_ip" /\ params.state = "present"
    /\ run = 2 /\ prev.outcome = "fail" /\ Len(PrevMut) = 2
    /\ IsCreateIp(PrevMut[1]) /\ PrevMut[1].ok
    /\ IsAssign(PrevMut[2]) /\ ~PrevMut[2].ok

C38_ConvergesAfterFailedAssign ==
    C38Case =>
        /\ Exists(before.ips, "name", params.name)
        /\ Count(IsCreateIp) = 0
        /\ Done
           => /\ Len(MutCalls) = 1 /\ IsAssign(MutCalls[1])
              /\ MutCalls[1].body = [vm_uuid |-> TheReqVm["uuid"]]
              /\ MutCalls[1].ok
                 => /\ outcome = "exit" /\ result["changed"] = TRUE
                    /\ result["name"] = params.name
                    /\ result["assigned_to_vm_uuid"] = TheReqVm["uuid"]

-----------------------------------------------------------------------------
(* C39: BlockStorage with desired present, for a vm_name that names an      *)
(* existing VM, looks the VM up and makes exactly one mutating request, the *)
(* POST that attaches a disk of the requested size to that VM's uuid; when  *)
(* it is accepted the invocation exits with uuid, name, size, vm_name and   *)
(* changed = TRUE.                                                          *)

C39Case ==
    /\ params.module = "block_storage" /\ params.state = "present"
    /\ RequestedVmFound /\ Done

C39_ReachesCreate ==
    C39Case =>
        /\ outcome # "fault"
        /\ \E i \in 1..Len(calls) : calls[i] = GetVms
        /\ Len(MutCalls) = 1 /\ IsAttach(MutCalls[1])
        /\ MutCalls[1].body = [uuid |-> TheReqVm["uuid"], size_gb |-> params.size]
        /\ MutCalls[1].ok
           => /\ outcome = "exit"
              /\ DOMAIN result = {"uuid", "name", "size", "vm_name", "changed"}
              /\ result["size"] = params.size
              /\ result["vm_name"] = params.vm_name
              /\ result["changed"] = TRUE

-----------------------------------------------------------------------------
(* C26: a VM record assembled for a VM that the lookup matched has the key  *)
(* public_ipv4: the address of the first floating IP assigned to the VM's   *)
(* private IP or uuid, and the empty string when there is none, an empty    *)
(* floating-IP list included; assembling it never raises.                   *)

VmHits == {i \in 1..Len(probe.data.items) : Matches(probe.data.items[i])}
MatchedVm == probe.data.items[Min(VmHits)]
JoinHits ==
    {i \in 1..Len(probe.ipdata.items) :
        LET e == probe.ipdata.items[i]
        IN  \/ Has(e, "assigned_to_private_ip")
                 /\ e["assigned_to_private_ip"] = MatchedVm["private_ipv4"]
            \/ Has(e, "assigned_to") /\ e["assigned_to"] = MatchedVm["uuid"]}

C26_PublicIpv4Always ==
    (probe # Empty /\ probe.kind = "vm" /\ ~NoMatch) =>
        /\ ~found.raised
        /\ Has(found.value, "public_ipv4")
        /\ found.value["public_ipv4"] =
             IF JoinHits = {} THEN ""
             ELSE probe.ipdata.items[Min(JoinHits)]["address"]

-----------------------------------------------------------------------------
(* C30, as stated: for a probe that supplies several criteria, when it      *)
(* supplies a private IP and some entry is assigned to it, the returned     *)
(* record is assigned to that private IP; otherwise, when it supplies a VM  *)
(* uuid and some entry is assigned to it, the returned record is assigned   *)
(* to that VM; whatever the entries' order.                                 *)

FipProbe == probe # Empty /\ probe.kind = "floating_ip" /\ probe.data.is_list
Entries == probe.data.items
ByPrivateIp ==
    {i \in 1..Len(Entries) :
        /\ probe.private_ipv4 # None /\ Has(Entries[i], "assigned_to_private_ip")
        /\ Entries[i]["assigned_to_private_ip"] = probe.private_ipv4}
ByVmUuid ==
    {i \in 1..Len(Entries) :
        /\ probe.uuid # None /\ Has(Entries[i], "assigned_to")
        /\ Entries[i]["assigned_to"] = probe.uuid}

Supplied ==
    Cardinality({k \in {"private_ipv4", "uuid", "name"} : probe[k] # None})

C30_PrecedenceWins ==
    (FipProbe /\ Supplied >= 2) =>
        /\ ByPrivateIp # {}
           => /\ ~found.raised /\ Has(found.value, "uuid")
              /\ found.value["private_ipv4_address"] = probe.private_ipv4
        /\ (ByPrivateIp = {} /\ ByVmUuid # {})
           => /\ ~found.raised /\ Has(found.value, "uuid")
              /\ found.value["assigned_to_vm_uuid"] = probe.uuid

(* C30, amended: the lookup returns the first entry, in the collection's    *)
(* order, that satisfies any of the three tests; the precedence only orders *)
(* the tests made on one entry.                                             *)

FipHits == {i \in 1..Len(Entries) : Matches(Entries[i])}
FirstHit == Entries[Min(FipHits)]

C30_FirstEntryWins ==
    (FipProbe /\ Len(Entries) > 0) =>
        /\ ~found.raised
        /\ FipHits = {} => found.value = Empty
        /\ FipHits # {}
           => /\ Has(found.value, "uuid")
              /\ found.value["uuid"] = FirstHit["uuid"]
              /\ found.value["public_ipv4"] = FirstHit["address"]
              /\ found.value["name"] = FirstHit["name"]
              /\ found.value["assigned_to_vm_uuid"] =
                   IF Has(FirstHit, "assigned_to") THEN FirstHit["assigned_to"]
                   ELSE ""
              /\ found.value["private_ipv4_address"] =
                   IF Has(FirstHit, "assigned_to_private_ip")
                   THEN FirstHit["assigned_to_private_ip"] ELSE ""

C30_Witness ==
    /\ FipProbe /\ Len(Entries) = 2
    /\ Supplied = 3
    /\ ByPrivateIp = {2} /\ FipHits = {1, 2}
    /\ found.value["name"] = probe.name
    /\ found.value["private_ipv4_address"] = ""

-----------------------------------------------------------------------------
(* C35: a lookup that supplies one criterion returns only an entry that     *)
(* matches it: _get_public_ipv4 called with a name alone returns, if        *)
(* anything, an entry of that name, and get_public_ip called with a private *)
(* IP alone reports, if anything, an entry assigned to that private IP.     *)

NameOnly ==
    /\ FipProbe /\ probe.name # None
    /\ probe.uuid = None /\ probe.private_ipv4 = None

PrivateIpOnly ==
    /\ probe # Empty /\ probe.kind = "get_public_ip" /\ probe.data.is_list
    /\ probe.private_ipv4 # None /\ probe.uuid = None

Returned == ~found.raised /\ Has(found.value, "uuid")

C35_SingleCriterion ==
    /\ (NameOnly /\ Returned) => found.value["name"] = probe.name
    /\ (PrivateIpOnly /\ Returned)
       => \E i \in 1..Len(Entries) :
              /\ Entries[i]["uuid"] = found.value["uuid"]
              /\ Has(Entries[i], "assigned_to_private_ip")
              /\ Entries[i]["assigned_to_private_ip"] = probe.private_ipv4

====
